---- MODULE Spec2Model ----
(***************************************************************************)
(* The detective notebook of clue_game (src/src/clue_game/notebook.py):    *)
(* the belief grid of each DetectiveNotebook, its event ingestion          *)
(* operations with the deduction pass they trigger, and the module-level   *)
(* registry of notebooks.                                                  *)
(***************************************************************************)
EXTENDS Integers, Sequences, FiniteSets, TLC

(***************************************************************************)
(* CardStatus and the absent value                                         *)
(***************************************************************************)
UNKNOWN == "UNKNOWN"
HAS == "HAS"
NOT_HAS == "NOT_HAS"
CardStatus == {UNKNOWN, HAS, NOT_HAS}

\* Python's None, as passed for an absent disprover / card_shown / roster.
None == "None"

(***************************************************************************)
(* The catalog built by _init_cards, in insertion order                    *)
(***************************************************************************)
suspects ==
    << "Miss Scarlet", "Colonel Mustard", "Mrs. White",
       "Mr. Green", "Mrs. Peacock", "Professor Plum" >>
weapons ==
    << "Candlestick", "Knife", "Lead Pipe", "Revolver", "Rope", "Wrench" >>
rooms ==
    << "Kitchen", "Ballroom", "Conservatory", "Billiard Room",
       "Library", "Study", "Hall", "Lounge", "Dining Room" >>

\* The keys of self.entries in dict insertion order.
entry_order == suspects \o weapons \o rooms

Range(s) == { s[i] : i \in 1..Len(s) }

\* F(v), with v evaluated once before F is applied to it.
Then(v, F(_)) == CHOOSE y \in { F(x) : x \in { v } } : TRUE

Cards == Range(entry_order)

card_type(c) ==
    IF c \in Range(suspects) THEN "suspect"
    ELSE IF c \in Range(weapons) THEN "weapon" ELSE "room"

\* The roster get_notebook uses when all_players is None.
DefaultPlayers == << "Scarlet", "Mustard", "Green", "Peacock", "Plum", "White" >>

\* str.upper() on the player names that occur.
upper(s) ==
    CASE s = "envelope" -> "ENVELOPE"
      [] s = "ENVELOPE" -> "ENVELOPE"
      [] s = "Nobody"   -> "NOBODY"
      [] s = "Scarlet"  -> "SCARLET"
      [] s = "Mustard"  -> "MUSTARD"
      [] s = "Green"    -> "GREEN"
      [] s = "Peacock"  -> "PEACOCK"
      [] s = "Plum"     -> "PLUM"
      [] s = "White"    -> "WHITE"

\* The total number of event log lines over the registered notebooks up to
\* which further calls are explored.
MaxLog == 2

\* The number of suggestion records per notebook up to which record_suggestion
\* is explored.
MaxSuggestions == 1

\* The bounds of the second exploration (DeepSpec): the event log lines of a
\* notebook before a call, and the suggestions recorded in it.
MaxDeepLog == 3
MaxDeepSuggestions == 2

\* The bound of the third exploration (RegistrySpec): the event log lines of
\* all notebooks together before a call.
MaxRegistryLog == 3

\* The bound of the fourth exploration (SweepSpec): the number of entries,
\* from the head of entry_order, whose cells take every value at the start.
MaxGridCards == 2

\* The bound of the fifth exploration (RetrySpec): the largest max_retries
\* argument of retry_with_backoff.
MaxRetries == 3

VARIABLES
    _player_notebooks,  \* the registry: owner name -> notebook
    last,               \* the most recent call and what it returned
    retry               \* the frame of a retry_with_backoff call (main.py)

vars == << _player_notebooks, last, retry >>

(***************************************************************************)
(* retry_with_backoff (main.py)                                            *)
(***************************************************************************)
\* What one call of func() ends with: an exception raised, or a value
\* returned, which is None, an object with a raw attribute, or another object.
Raises(e) == [ raised |-> e, is_none |-> FALSE, has_raw |-> FALSE, raw |-> "" ]
Returns(is_none, has_raw, raw) == [ raised |-> None, is_none |-> is_none, has_raw |-> has_raw, raw |-> raw ]

NoOutcome == Returns(TRUE, FALSE, "")

VALUE_ERROR == "ValueError: Empty or None response from LLM"

\* An emptiness test that looks for None only.
is_empty_response_none_only(out) == out.is_none

\* result is None or (hasattr(result, 'raw') and not result.raw)
is_empty_response(out) == out.is_none \/ (out.has_raw /\ out.raw = "")

\* A delay that grows by base_delay with every attempt.
backoff_delay_linear(base_delay, attempt) == base_delay * (attempt + 1)

\* delay = base_delay * (2 ** attempt)
backoff_delay(base_delay, attempt) == base_delay * 2^attempt

\* The frame of a call: where it is, its arguments, the loop variable, the
\* calls of func made, the time.sleep calls made, last_exception, what the
\* last func() ended with, and what the call returned or raised.
Frame(pc, max_retries, base_delay, attempt, calls, sleeps, last_exception, outcome, result, raised) ==
    [ pc |-> pc, max_retries |-> max_retries, base_delay |-> base_delay,
      attempt |-> attempt, calls |-> calls, sleeps |-> sleeps,
      last_exception |-> last_exception, outcome |-> outcome,
      result |-> result, raised |-> raised ]

\* No call of retry_with_backoff is under way.
NoRetry == Frame("idle", 0, 0, 0, 0, <<>>, None, NoOutcome, NoOutcome, None)

(***************************************************************************)
(* DetectiveNotebook                                                       *)
(***************************************************************************)
\* One event log line; unused parts are None / 0.
Line(kind, who, card, n) == [kind |-> kind, who |-> who, card |-> card, n |-> n]

\* self._log(message)
_log(nb, line) == [nb EXCEPT !.turn_log = Append(@, line)]

\* DetectiveNotebook(owner_name, all_player_names): every entry UNKNOWN for
\* every player and for the envelope, both logs empty.
\* A constructor that starts with every card excluded from the envelope.
DetectiveNotebook_excluded(owner_name, all_player_names) ==
    [ owner_name      |-> owner_name,
      all_players     |-> all_player_names,
      player_status   |-> [c \in Cards |-> [p \in Range(all_player_names) |-> UNKNOWN]],
      envelope_status |-> [c \in Cards |-> NOT_HAS],
      suggestion_log  |-> <<>>,
      turn_log        |-> <<>> ]

DetectiveNotebook(owner_name, all_player_names) ==
    [ owner_name      |-> owner_name,
      all_players     |-> all_player_names,
      player_status   |-> [c \in Cards |-> [p \in Range(all_player_names) |-> UNKNOWN]],
      envelope_status |-> [c \in Cards |-> UNKNOWN],
      suggestion_log  |-> <<>>,
      turn_log        |-> <<>> ]

\* NotebookEntry.is_solved
is_solved(nb, c) ==
    \/ nb.envelope_status[c] = HAS
    \/ \E p \in DOMAIN nb.player_status[c] : nb.player_status[c][p] = HAS

(***************************************************************************)
(* _check_deductions                                                       *)
(***************************************************************************)
\* A faulty deduction 1 that never fires.
deduce_envelope_never(nb, c) == FALSE

\* A faulty deduction 1 that fires as soon as any player is NOT_HAS.
deduce_envelope_any(nb, c) ==
    /\ nb.envelope_status[c] = UNKNOWN
    /\ \E p \in DOMAIN nb.player_status[c] : nb.player_status[c][p] = NOT_HAS

\* A faulty deduction 1 that also revises an envelope that is NOT_HAS.
deduce_envelope_revises(nb, c) ==
    /\ nb.envelope_status[c] # HAS
    /\ \A p \in DOMAIN nb.player_status[c] : nb.player_status[c][p] = NOT_HAS

\* Deduction 1 on entry c: its envelope is UNKNOWN and every player is NOT_HAS.
deduce_envelope(nb, c) ==
    /\ nb.envelope_status[c] = UNKNOWN
    /\ \A p \in DOMAIN nb.player_status[c] : nb.player_status[c][p] = NOT_HAS

\* The envelope status of entry c after deduction 1.
envelope_deduced(nb, c) ==
    IF deduce_envelope(nb, c) THEN HAS ELSE nb.envelope_status[c]

\* A faulty deduction 2 that sets changed whenever the envelope is HAS.
exclude_players_rewrites(nb, c) == envelope_deduced(nb, c) = HAS

\* Deduction 2 on entry c: the envelope is (now) HAS and some player of
\* all_players is not NOT_HAS; that player becomes NOT_HAS, nothing is logged.
exclude_players(nb, c) ==
    /\ envelope_deduced(nb, c) = HAS
    /\ \E i \in 1..Len(nb.all_players) :
           nb.player_status[c][nb.all_players[i]] # NOT_HAS

\* The "DEDUCED: ... is in the ENVELOPE!" lines of one pass, in entry order.
\* A deduction pass that logs nothing.
deduced_lines_none(nb, i) == << >>

RECURSIVE deduced_lines(_, _)
deduced_lines(nb, i) ==
    IF i > Len(entry_order) THEN << >>
    ELSE ( IF deduce_envelope(nb, entry_order[i])
           THEN << Line("DEDUCED", "ENVELOPE", entry_order[i], 0) >>
           ELSE << >> ) \o deduced_lines(nb, i + 1)

\* One pass of the for loop over self.entries. An entry's two deductions read
\* and write that entry alone, so the pass is the same function of the
\* notebook entry by entry.
sweep(nb) ==
    [ nb |->
        [nb EXCEPT
            !.envelope_status = [c \in Cards |-> envelope_deduced(nb, c)],
            !.player_status =
                [c \in Cards |->
                    IF envelope_deduced(nb, c) = HAS
                    THEN [p \in DOMAIN nb.player_status[c] |->
                            IF p \in Range(nb.all_players)
                            THEN NOT_HAS ELSE nb.player_status[c][p]]
                    ELSE nb.player_status[c]],
            !.turn_log = @ \o deduced_lines(nb, 1)],
      changed |->
        \E c \in Cards : deduce_envelope(nb, c) \/ exclude_players(nb, c) ]

\* while changed: sweep.
RECURSIVE _check_deductions(_)
_check_deductions(nb) ==
    LET r == sweep(nb)
    IN  IF r.changed THEN _check_deductions(r.nb) ELSE r.nb

(***************************************************************************)
(* mark_card / mark_not_has                                                *)
(***************************************************************************)
ERR_CARD == "Error: Unknown card"
ERR_PLAYER == "Error: Unknown player"
MARKED_HAS == "Marked: has"
MARKED_NOT_HAS == "Marked: does NOT have"
Errors == { ERR_CARD, ERR_PLAYER }

\* A faulty acceptance test that compares with the token without upper().
accepts_holder_exact(nb, card_name, player_name) ==
    \/ player_name \in DOMAIN nb.player_status[card_name]
    \/ player_name = "ENVELOPE"

\* mark_card accepts player_name as a player of the entry or, in any letter
\* case, as the envelope.
accepts_holder(nb, card_name, player_name) ==
    \/ player_name \in DOMAIN nb.player_status[card_name]
    \/ upper(player_name) = "ENVELOPE"

\* A faulty marking that unmarks a player who is already HAS.
set_holder_toggle(nb, card_name, player_name) ==
    IF player_name \in DOMAIN nb.player_status[card_name]
    THEN [nb EXCEPT !.player_status[card_name][player_name] =
              IF @ = HAS THEN UNKNOWN ELSE HAS]
    ELSE [nb EXCEPT !.envelope_status[card_name] = HAS]

\* "Mark this player as having the card": the player's status, or else the
\* envelope's, becomes HAS.
set_holder(nb, card_name, player_name) ==
    IF player_name \in DOMAIN nb.player_status[card_name]
    THEN [nb EXCEPT !.player_status[card_name][player_name] = HAS]
    ELSE [nb EXCEPT !.envelope_status[card_name] = HAS]

\* A faulty exclusion that runs over the entries of every card.
set_others_not_has_every_card(nb, card_name, player_name) ==
    [nb EXCEPT !.player_status =
        [c \in DOMAIN @ |->
            [p \in DOMAIN @[c] |->
                IF p \in Range(nb.all_players) /\ p # player_name
                THEN NOT_HAS ELSE @[c][p]]]]

\* A faulty exclusion: the loop over the other players is missing.
set_others_not_has_missing(nb, card_name, player_name) == nb

\* "Mark all OTHER players as NOT having this card".
set_others_not_has(nb, card_name, player_name) ==
    [nb EXCEPT !.player_status[card_name] =
        [p \in DOMAIN @ |->
            IF p \in Range(nb.all_players) /\ p # player_name THEN NOT_HAS ELSE @[p]]]

\* A faulty exclusion: the envelope is left as it was.
set_envelope_not_has_missing(nb, card_name, player_name) == nb

\* "If a player has it, it's not in the envelope": compares player_name with
\* the token as spelled in upper case.
set_envelope_not_has(nb, card_name, player_name) ==
    IF player_name # "ENVELOPE"
    THEN [nb EXCEPT !.envelope_status[card_name] = NOT_HAS]
    ELSE nb

\* A faulty mark_card in which the exclusion, the log line and the deduction
\* pass are nested under the player branch, so that marking the envelope
\* does nothing more than set its status.
mark_card_player_branch(nb, card_name, player_name) ==
    IF card_name \notin Cards THEN [ nb |-> nb, ret |-> ERR_CARD ]
    ELSE IF ~accepts_holder(nb, card_name, player_name)
    THEN [ nb |-> nb, ret |-> ERR_PLAYER ]
    ELSE IF player_name \notin DOMAIN nb.player_status[card_name]
    THEN [ nb |-> set_holder(nb, card_name, player_name), ret |-> MARKED_HAS ]
    ELSE LET n1 == set_holder(nb, card_name, player_name)
             n2 == set_others_not_has(n1, card_name, player_name)
             n3 == set_envelope_not_has(n2, card_name, player_name)
             n4 == _log(n3, Line("MARKED HAS", player_name, card_name, 0))
         IN  [ nb |-> _check_deductions(n4), ret |-> MARKED_HAS ]

mark_card(nb, card_name, player_name) ==
    IF card_name \notin Cards THEN [ nb |-> nb, ret |-> ERR_CARD ]
    ELSE IF ~accepts_holder(nb, card_name, player_name)
    THEN [ nb |-> nb, ret |-> ERR_PLAYER ]
    ELSE LET n1 == set_holder(nb, card_name, player_name)
             n2 == set_others_not_has(n1, card_name, player_name)
             n3 == set_envelope_not_has(n2, card_name, player_name)
             n4 == _log(n3, Line("MARKED HAS", player_name, card_name, 0))
         IN  [ nb |-> _check_deductions(n4), ret |-> MARKED_HAS ]

\* A faulty mark_not_has that writes its log line before it looks the player up.
mark_not_has_logs_first(nb, card_name, player_name) ==
    IF card_name \notin Cards THEN [ nb |-> nb, ret |-> ERR_CARD ]
    ELSE LET n0 == _log(nb, Line("MARKED NOT", player_name, card_name, 0))
         IN  IF player_name \notin DOMAIN nb.player_status[card_name]
             THEN [ nb |-> n0, ret |-> ERR_PLAYER ]
             ELSE [ nb |-> _check_deductions(
                              [n0 EXCEPT !.player_status[card_name][player_name] = NOT_HAS]),
                    ret |-> MARKED_NOT_HAS ]

mark_not_has(nb, card_name, player_name) ==
    IF card_name \notin Cards THEN [ nb |-> nb, ret |-> ERR_CARD ]
    ELSE IF player_name \notin DOMAIN nb.player_status[card_name]
    THEN [ nb |-> nb, ret |-> ERR_PLAYER ]
    ELSE LET n1 == [nb EXCEPT !.player_status[card_name][player_name] = NOT_HAS]
             n2 == _log(n1, Line("MARKED NOT", player_name, card_name, 0))
         IN  [ nb |-> _check_deductions(n2), ret |-> MARKED_NOT_HAS ]

(***************************************************************************)
(* record_my_cards / record_suggestion                                     *)
(***************************************************************************)
RECORDED_CARDS == "Recorded cards in your hand"
RECORDED_SUGGESTION == "Recorded suggestion"
\* The exception a call ends with when it does not return.
KEY_ERROR == "KeyError"

\* for card in my_cards: results.append(self.mark_card(card, self.owner_name))
RECURSIVE mark_my_cards(_, _, _, _)
mark_my_cards(nb, my_cards, i, results) ==
    IF i > Len(my_cards) THEN [ nb |-> nb, results |-> results ]
    ELSE Then(mark_card(nb, my_cards[i], nb.owner_name),
              LAMBDA r : mark_my_cards(r.nb, my_cards, i + 1, Append(results, r.ret)))

\* A record_my_cards that marks the cards and logs no GAME START line.
record_my_cards_no_log(nb, my_cards) ==
    LET r == mark_my_cards(nb, my_cards, 1, <<>>)
    IN  [ nb |-> r.nb, ret |-> RECORDED_CARDS, results |-> r.results ]

record_my_cards(nb, my_cards) ==
    LET r == mark_my_cards(nb, my_cards, 1, <<>>)
    IN  [ nb      |-> _log(r.nb, Line("GAME START", nb.owner_name, None, Len(my_cards))),
          ret     |-> RECORDED_CARDS,
          results |-> r.results ]

\* The arguments of one record_suggestion call.
Suggestion(turn_number, suggester, suspect, weapon, room, disprover, card_shown, players_who_passed) ==
    [ turn |-> turn_number, suggester |-> suggester, suspect |-> suspect,
      weapon |-> weapon, room |-> room, disprover |-> disprover,
      card_shown |-> card_shown, players_passed |-> players_who_passed ]

\* A record_suggestion step that never marks the card shown.
mark_shown_never(nb, sg) == [ nb |-> nb, deductions |-> <<>> ]

\* "If someone showed ME a card, mark it": the result of mark_card is dropped.
mark_shown(nb, sg) ==
    IF sg.card_shown # None /\ sg.disprover # None
    THEN [ nb |-> mark_card(nb, sg.card_shown, sg.disprover).nb,
           deductions |-> << << "has", sg.disprover, sg.card_shown >> >> ]
    ELSE [ nb |-> nb, deductions |-> <<>> ]

\* The nested loops with the test "== CardStatus.UNKNOWN" left out: every
\* cell of a passing player is marked.
RECURSIVE mark_passed_always(_, _, _, _, _)
mark_passed_always(nb, sg, i, j, deductions) ==
    IF i > Len(sg.players_passed)
    THEN [ nb |-> nb, deductions |-> deductions, raised |-> FALSE ]
    ELSE IF j > 3 THEN mark_passed_always(nb, sg, i + 1, 1, deductions)
    ELSE LET player == sg.players_passed[i]
             card   == << sg.suspect, sg.weapon, sg.room >>[j]
         IN  IF card \notin Cards
             THEN [ nb |-> nb, deductions |-> deductions, raised |-> TRUE ]
             ELSE IF player \in DOMAIN nb.player_status[card]
             THEN Then(mark_not_has(nb, card, player).nb,
                       LAMBDA n : mark_passed_always(n, sg, i, j + 1,
                           Append(deductions, << "passed", player, card >>)))
             ELSE mark_passed_always(nb, sg, i, j + 1, deductions)

\* The nested loops over players_who_passed and [suspect, weapon, room], from
\* player i and card j on. self.entries[card] raises KeyError for a card
\* outside the catalog, which ends the call with what was done so far.
RECURSIVE mark_passed(_, _, _, _, _)
mark_passed(nb, sg, i, j, deductions) ==
    IF i > Len(sg.players_passed)
    THEN [ nb |-> nb, deductions |-> deductions, raised |-> FALSE ]
    ELSE IF j > 3 THEN mark_passed(nb, sg, i + 1, 1, deductions)
    ELSE LET player == sg.players_passed[i]
             card   == << sg.suspect, sg.weapon, sg.room >>[j]
         IN  IF card \notin Cards
             THEN [ nb |-> nb, deductions |-> deductions, raised |-> TRUE ]
             ELSE IF /\ player \in DOMAIN nb.player_status[card]
                     /\ nb.player_status[card][player] = UNKNOWN
             THEN Then(mark_not_has(nb, card, player).nb,
                       LAMBDA n : mark_passed(n, sg, i, j + 1,
                           Append(deductions, << "passed", player, card >>)))
             ELSE mark_passed(nb, sg, i, j + 1, deductions)

\* A record_suggestion that keeps only the newest record.
record_suggestion_keeps_one(nb, sg) ==
    [ nb |-> [nb EXCEPT !.suggestion_log = << sg >>],
      ret |-> RECORDED_SUGGESTION, results |-> <<>> ]

record_suggestion(nb, sg) ==
    LET n1 == [nb EXCEPT !.suggestion_log = Append(@, sg)]
        r2 == mark_shown(n1, sg)
        r3 == mark_passed(r2.nb, sg, 1, 1, r2.deductions)
        n4 == _log(r3.nb, Line("SUGGESTION", sg.suggester, sg.suspect,
                               Len(n1.suggestion_log)))
        n5 == IF sg.disprover # None
              THEN _log(n4, Line("Disproved by", sg.disprover, sg.card_shown, 0))
              ELSE _log(n4, Line("NOT DISPROVED", None, None, 0))
    IN  IF r3.raised
        THEN [ nb |-> r3.nb, ret |-> KEY_ERROR, results |-> <<>> ]
        ELSE [ nb |-> _check_deductions(n5), ret |-> RECORDED_SUGGESTION,
               results |-> r3.deductions ]

(***************************************************************************)
(* The queries. Each returns the notebook it leaves with its answer.       *)
(***************************************************************************)
CardTypes == << "suspect", "weapon", "room" >>

\* NotebookEntry.get_owner
get_owner(nb, c) ==
    IF nb.envelope_status[c] = HAS THEN "ENVELOPE"
    ELSE LET holders == SelectSeq(nb.all_players,
                                  LAMBDA p : nb.player_status[c][p] = HAS)
         IN  IF holders # <<>> THEN holders[1] ELSE None

\* any(s == CardStatus.HAS for s in entry.player_status.values())
held(nb, c) == \E p \in DOMAIN nb.player_status[c] : nb.player_status[c][p] = HAS

\* The cards of one type that pass a test, in the order of self.entries.
select(t, Test(_)) == SelectSeq(entry_order, LAMBDA c : card_type(c) = t /\ Test(c))

\* unknown[card_type]: the cards of the type that are not solved.
unknown(nb, t) == select(t, LAMBDA c : ~is_solved(nb, c))

get_unknown_cards(nb) ==
    [ nb |-> nb, unknown |-> [t \in Range(CardTypes) |-> unknown(nb, t)] ]

\* A confirmed[card_type] that tests the envelope against NOT_HAS.
confirmed_excluded(nb, t) ==
    LET outside == select(t, LAMBDA c : nb.envelope_status[c] = NOT_HAS)
    IN  IF outside = <<>> THEN None ELSE outside[Len(outside)]

\* confirmed[card_type] after the loop over self.entries: each card with the
\* envelope HAS overwrites the one before it, so the last one stays.
confirmed(nb, t) ==
    LET inside == select(t, LAMBDA c : nb.envelope_status[c] = HAS)
    IN  IF inside = <<>> THEN None ELSE inside[Len(inside)]

\* A possible[card_type] that leaves out the test of the envelope against
\* NOT_HAS.
possible_not_excluded(nb, t) ==
    select(t, LAMBDA c : nb.envelope_status[c] # HAS /\ ~held(nb, c))

\* possible[card_type] after the loop: the elif branch.
possible(nb, t) ==
    select(t, LAMBDA c : /\ nb.envelope_status[c] # HAS
                         /\ nb.envelope_status[c] # NOT_HAS
                         /\ ~held(nb, c))

\* confirmed[t] or len(possible[t]) == 1
narrowed(nb, t) == confirmed(nb, t) # None \/ Len(possible(nb, t)) = 1

can_accuse(nb) == \A t \in Range(CardTypes) : narrowed(nb, t)

\* confirmed[t] or possible[t][0]
final(nb, t) ==
    IF confirmed(nb, t) # None THEN confirmed(nb, t) ELSE possible(nb, t)[1]

get_possible_solution(nb) ==
    [ nb         |-> nb,
      can_accuse |-> can_accuse(nb),
      confirmed  |-> [t \in Range(CardTypes) |-> confirmed(nb, t)],
      possible   |-> [t \in Range(CardTypes) |-> possible(nb, t)],
      accuse     |-> IF can_accuse(nb)
                     THEN [t \in Range(CardTypes) |-> final(nb, t)]
                     ELSE [t \in Range(CardTypes) |-> None] ]

get_accusation_recommendation(nb) ==
    IF can_accuse(nb)
    THEN [ nb |-> nb, can_accuse |-> TRUE,
           suspect |-> final(nb, "suspect"),
           weapon  |-> final(nb, "weapon"),
           room    |-> final(nb, "room"),
           possible |-> [t \in Range(CardTypes) |-> <<>>] ]
    ELSE [ nb |-> nb, can_accuse |-> FALSE,
           suspect |-> None, weapon |-> None, room |-> None,
           possible |-> [t \in Range(CardTypes) |-> possible(nb, t)] ]

\* Warnings that leave out the test of the envelope against NOT_HAS.
accusation_warnings_held_only(nb, c) ==
    IF c \notin Cards THEN <<>>
    ELSE IF held(nb, c) THEN << << "held", c, get_owner(nb, c) >> >> ELSE <<>>

\* The warnings of validate_accusation for one card.
accusation_warnings(nb, c) ==
    IF c \notin Cards THEN <<>>
    ELSE (IF held(nb, c) THEN << << "held", c, get_owner(nb, c) >> >> ELSE <<>>)
         \o (IF nb.envelope_status[c] = NOT_HAS
             THEN << << "not in envelope", c, None >> >> ELSE <<>>)

\* A validate_accusation that logs its verdict.
validate_accusation_logs(nb, suspect, weapon, room) ==
    [ nb |-> _log(nb, Line("VALIDATED", None, suspect, 0)),
      valid |-> TRUE, warnings |-> <<>>,
      recommendation |-> [ get_accusation_recommendation(nb) EXCEPT !.nb = nb ] ]

validate_accusation(nb, suspect, weapon, room) ==
    LET warnings == accusation_warnings(nb, suspect)
                    \o accusation_warnings(nb, weapon)
                    \o accusation_warnings(nb, room)
        recommendation == get_accusation_recommendation(nb)
    IN  [ nb |-> recommendation.nb,
          valid |-> warnings = <<>>,
          warnings |-> warnings,
          recommendation |-> recommendation ]

\* The warnings of validate_suggestion for one card (if / elif).
suggestion_warnings(nb, c) ==
    IF c \notin Cards THEN <<>>
    ELSE IF held(nb, c) THEN << << "held", c, get_owner(nb, c) >> >>
    ELSE IF nb.envelope_status[c] = NOT_HAS
    THEN << << "eliminated", c, None >> >> ELSE <<>>

\* Alternatives that leave out the test of the envelope against NOT_HAS.
alternatives_unsolved(nb, t) == select(t, LAMBDA c : ~is_solved(nb, c))

\* alternatives[card_type]
alternatives(nb, t) ==
    select(t, LAMBDA c : /\ ~is_solved(nb, c)
                         /\ nb.envelope_status[c] # NOT_HAS
                         /\ ~held(nb, c))

validate_suggestion(nb, suspect, weapon, room) ==
    LET warnings == suggestion_warnings(nb, suspect)
                    \o suggestion_warnings(nb, weapon)
                    \o suggestion_warnings(nb, room)
    IN  IF warnings # <<>>
        THEN [ nb |-> nb, valid |-> FALSE, warnings |-> warnings,
               wasted_cards |-> [i \in 1..Len(warnings) |-> warnings[i][2]],
               better_suspects |-> alternatives(nb, "suspect"),
               better_weapons  |-> alternatives(nb, "weapon") ]
        ELSE [ nb |-> nb, valid |-> TRUE, warnings |-> <<>>,
               wasted_cards |-> <<>>,
               better_suspects |-> <<>>, better_weapons |-> <<>> ]

\* A get_strategic_suggestion that recommends the first card of each
\* category, solved or not.
get_strategic_suggestion_first(nb, current_room) ==
    [ nb |-> nb, room |-> current_room,
      unknown_s |-> unknown(nb, "suspect"), unknown_w |-> unknown(nb, "weapon"),
      recommend_s |-> suspects[1], recommend_w |-> weapons[1],
      suggest |-> << suspects[1], weapons[1], current_room >> ]

get_strategic_suggestion(nb, current_room) ==
    LET unknown_s == unknown(nb, "suspect")
        unknown_w == unknown(nb, "weapon")
        recommend_s == IF unknown_s # <<>> THEN unknown_s[1] ELSE None
        recommend_w == IF unknown_w # <<>> THEN unknown_w[1] ELSE None
    IN  [ nb |-> nb, room |-> current_room,
          unknown_s |-> unknown_s, unknown_w |-> unknown_w,
          recommend_s |-> recommend_s, recommend_w |-> recommend_w,
          suggest |-> IF recommend_s # None /\ recommend_w # None
                      THEN << recommend_s, recommend_w, current_room >>
                      ELSE <<>> ]

(***************************************************************************)
(* The registry                                                            *)
(***************************************************************************)
\* A get_notebook that constructs a notebook on every access.
get_notebook_recreates(notebooks, player_name, all_players) ==
    [k \in DOMAIN notebooks \cup {player_name} |->
        IF k = player_name
        THEN DetectiveNotebook(player_name, all_players)
        ELSE notebooks[k]]

\* get_notebook: creates the notebook on first access and leaves a registered
\* one as it is.
get_notebook(notebooks, player_name, all_players) ==
    IF player_name \notin DOMAIN notebooks
    THEN [k \in DOMAIN notebooks \cup {player_name} |->
            IF k = player_name
            THEN DetectiveNotebook(player_name, all_players)
            ELSE notebooks[k]]
    ELSE notebooks

\* A reset_notebook that keeps the owner's notebook.
reset_notebook_keeps(notebooks, player_name) == notebooks

\* A reset_notebook that discards every notebook.
reset_notebook_everyone(notebooks, player_name) == << >>

\* reset_notebook: deletes the owner's key when it is registered.
reset_notebook(notebooks, player_name) ==
    [k \in DOMAIN notebooks \ {player_name} |-> notebooks[k]]

reset_all_notebooks == << >>

\* A broadcast that is abandoned, with nothing marked, when some registered
\* notebook does not accept the mark.
update_all_notebooks_card_shown_aborts(notebooks, card_name, card_holder) ==
    IF \E k \in DOMAIN notebooks :
           mark_card(notebooks[k], card_name, card_holder).nb = notebooks[k]
    THEN notebooks
    ELSE [k \in DOMAIN notebooks |->
             mark_card(notebooks[k], card_name, card_holder).nb]

\* A broadcast that reaches one registered notebook only.
update_one_notebook_card_shown(notebooks, card_name, card_holder) ==
    [k \in DOMAIN notebooks |->
        IF k = (CHOOSE x \in DOMAIN notebooks : TRUE)
        THEN mark_card(notebooks[k], card_name, card_holder).nb
        ELSE notebooks[k]]

\* update_all_notebooks_card_shown: mark_card on every registered notebook.
update_all_notebooks_card_shown(notebooks, card_name, card_holder) ==
    [k \in DOMAIN notebooks |-> mark_card(notebooks[k], card_name, card_holder).nb]

(***************************************************************************)
(* The calls explored                                                      *)
(***************************************************************************)
\* Owners for which the registry is asked for a notebook.
NotebookOwners == { "Scarlet" }

\* all_players arguments: an empty roster and a two-player roster.
RosterInputs == { << >>, << "Scarlet", "Mustard" >> }

\* player_name arguments: players, the envelope token in two spellings, and
\* a name that is neither.
OwnerInputs == { "Scarlet", "Mustard", "ENVELOPE", "envelope", "Nobody" }

\* (card_name, player_name) arguments of mark_card and mark_not_has: a
\* catalog card with every owner, and a name outside the catalog.
MarkInputs ==
    { << "Miss Scarlet", p >> : p \in OwnerInputs }
    \cup { << "Bogus", "Scarlet" >>, << "Bogus", "Nobody" >> }

\* (card_name, card_holder) arguments of update_all_notebooks_card_shown.
ShownInputs == { << "Knife", "Mustard" >>, << "Bogus", "Mustard" >> }

\* my_cards arguments.
HandInputs == { << >>, << "Miss Scarlet", "Knife" >>, << "Bogus" >> }

\* record_suggestion arguments.
NoSuggestion == Suggestion(0, None, None, None, None, None, None, <<>>)
SuggestionInputs ==
    { Suggestion(1, "Mustard", s, "Knife", "Kitchen", dc[1], dc[2], ps) :
        s \in { "Miss Scarlet", "Bogus" },
        dc \in { << None, None >>, << "Mustard", "Knife" >> },
        ps \in { << >>, << "Scarlet", "Nobody" >> } }
    \cup
    { Suggestion(1, "Mustard", "Miss Scarlet", "Knife", "Kitchen", dc[1], dc[2], ps) :
        dc \in { << None, "Knife" >>, << "Mustard", None >> },
        ps \in { << >>, << "Scarlet", "Nobody" >> } }

\* The record of a call: the operation, the registry key of the notebook it
\* was made on, its arguments, what it returned (or raised) and the list it
\* built for its message.
Call(op, key, card, player, cards, sugg, ret, results) ==
    [ op |-> op, key |-> key, card |-> card, player |-> player, cards |-> cards,
      sugg |-> sugg, ret |-> ret, results |-> results ]

total_log(notebooks) ==
    LET RECURSIVE sum(_)
        sum(ks) == IF ks = {} THEN 0
                   ELSE LET k == CHOOSE x \in ks : TRUE
                        IN  Len(notebooks[k].turn_log) + sum(ks \ {k})
    IN  sum(DOMAIN notebooks)

\* A notebook on which a further call is explored: the event logs hold fewer
\* than MaxLog lines.
Open(key) ==
    /\ key \in DOMAIN _player_notebooks
    /\ total_log(_player_notebooks) < MaxLog

\* A notebook on which a further suggestion is explored.
OpenSuggestion(key) ==
    /\ Open(key)
    /\ Len(_player_notebooks[key].suggestion_log) < MaxSuggestions

Init ==
    /\ retry = NoRetry
    /\ _player_notebooks = << >>
    /\ last = Call("init", None, None, None, <<>>, NoSuggestion, None, <<>>)

GetNotebook(player_name, all_players) ==
    /\ retry' = retry
    /\ _player_notebooks' = get_notebook(_player_notebooks, player_name, all_players)
    /\ last' = Call("get_notebook", player_name, None, None, all_players,
                    NoSuggestion, None, <<>>)

\* get_notebook(player_name): all_players is None and becomes DefaultPlayers.
GetNotebookDefault(player_name) ==
    /\ retry' = retry
    /\ _player_notebooks' = get_notebook(_player_notebooks, player_name, DefaultPlayers)
    /\ last' = Call("get_notebook", player_name, None, None, << None >>,
                    NoSuggestion, None, <<>>)

ResetNotebook(player_name) ==
    /\ retry' = retry
    /\ _player_notebooks' = reset_notebook(_player_notebooks, player_name)
    /\ last' = Call("reset_notebook", player_name, None, None, <<>>,
                    NoSuggestion, None, <<>>)

ResetAllNotebooks ==
    /\ retry' = retry
    /\ _player_notebooks' = reset_all_notebooks
    /\ last' = Call("reset_all_notebooks", None, None, None, <<>>,
                    NoSuggestion, None, <<>>)

UpdateAllNotebooksCardShown(card_name, card_holder) ==
    /\ retry' = retry
    /\ _player_notebooks' =
           update_all_notebooks_card_shown(_player_notebooks, card_name, card_holder)
    /\ last' = Call("update_all_notebooks_card_shown", None, card_name, card_holder,
                    <<>>, NoSuggestion, None, <<>>)

MarkCard(key, card_name, player_name) ==
    /\ key \in DOMAIN _player_notebooks
    /\ LET r == mark_card(_player_notebooks[key], card_name, player_name)
       IN  /\ retry' = retry
           /\ _player_notebooks' = [_player_notebooks EXCEPT ![key] = r.nb]
           /\ last' = Call("mark_card", key, card_name, player_name, <<>>,
                           NoSuggestion, r.ret, <<>>)

MarkNotHas(key, card_name, player_name) ==
    /\ key \in DOMAIN _player_notebooks
    /\ LET r == mark_not_has(_player_notebooks[key], card_name, player_name)
       IN  /\ retry' = retry
           /\ _player_notebooks' = [_player_notebooks EXCEPT ![key] = r.nb]
           /\ last' = Call("mark_not_has", key, card_name, player_name, <<>>,
                           NoSuggestion, r.ret, <<>>)

RecordMyCards(key, my_cards) ==
    /\ key \in DOMAIN _player_notebooks
    /\ LET r == record_my_cards(_player_notebooks[key], my_cards)
       IN  /\ retry' = retry
           /\ _player_notebooks' = [_player_notebooks EXCEPT ![key] = r.nb]
           /\ last' = Call("record_my_cards", key, None, None, my_cards,
                           NoSuggestion, r.ret, r.results)

RecordSuggestion(key, sg) ==
    /\ key \in DOMAIN _player_notebooks
    /\ LET r == record_suggestion(_player_notebooks[key], sg)
       IN  /\ retry' = retry
           /\ _player_notebooks' = [_player_notebooks EXCEPT ![key] = r.nb]
           /\ last' = Call("record_suggestion", key, None, None, <<>>,
                           sg, r.ret, r.results)

Next ==
    \/ \E p \in NotebookOwners, r \in RosterInputs : GetNotebook(p, r)
    \/ \E p \in NotebookOwners : GetNotebookDefault(p)
    \/ \E p \in NotebookOwners : ResetNotebook(p)
    \/ ResetAllNotebooks
    \/ \E a \in ShownInputs :
           total_log(_player_notebooks) < MaxLog
               /\ UpdateAllNotebooksCardShown(a[1], a[2])
    \/ \E k \in NotebookOwners, a \in MarkInputs : Open(k) /\ MarkCard(k, a[1], a[2])
    \/ \E k \in NotebookOwners, a \in MarkInputs : Open(k) /\ MarkNotHas(k, a[1], a[2])
    \/ \E k \in NotebookOwners, cs \in HandInputs : Open(k) /\ RecordMyCards(k, cs)
    \/ \E k \in NotebookOwners, sg \in SuggestionInputs :
           OpenSuggestion(k) /\ RecordSuggestion(k, sg)

Spec == Init /\ [][Next]_vars

(***************************************************************************)
(* A second exploration: one roster, few inputs, longer call sequences,    *)
(* and the queries                                                         *)
(***************************************************************************)
DeepRoster == << "Scarlet", "Mustard" >>

\* mark_card arguments: two suspects for the envelope, and one of them for a
\* player.
DeepMarkInputs ==
    { << "Miss Scarlet", "ENVELOPE" >>, << "Colonel Mustard", "ENVELOPE" >>,
      << "Miss Scarlet", "Mustard" >> }

\* mark_not_has arguments.
DeepNotHasInputs == { << "Miss Scarlet", "Mustard" >> }

\* my_cards arguments: every weapon but one and every room but one.
DeepHandInputs ==
    { SelectSeq(weapons \o rooms, LAMBDA c : c \notin { "Rope", "Library" }) }

\* record_suggestion arguments: a suggestion nobody disproved, and one with a
\* suspect outside the catalog that a player passed on.
DeepSuggestionInputs ==
    { Suggestion(1, "Mustard", "Miss Scarlet", "Knife", "Kitchen", None, None, << >>),
      Suggestion(2, "Mustard", "Bogus", "Knife", "Kitchen", None, None, << "Scarlet" >>) }

\* (suspect, weapon, room) arguments of the validations.
QueryInputs == { << "Miss Scarlet", "Rope", "Bogus" >> }

\* bool as the string str() gives.
str(b) == IF b THEN "True" ELSE "False"

Seqs(f) == f["suspect"] \o f["weapon"] \o f["room"]

GetUnknownCards(key) ==
    /\ key \in DOMAIN _player_notebooks
    /\ LET r == get_unknown_cards(_player_notebooks[key])
       IN  /\ retry' = retry
           /\ _player_notebooks' = [_player_notebooks EXCEPT ![key] = r.nb]
           /\ last' = Call("get_unknown_cards", key, None, None, <<>>,
                           NoSuggestion, None, Seqs(r.unknown))

GetPossibleSolution(key) ==
    /\ key \in DOMAIN _player_notebooks
    /\ LET r == get_possible_solution(_player_notebooks[key])
       IN  /\ retry' = retry
           /\ _player_notebooks' = [_player_notebooks EXCEPT ![key] = r.nb]
           /\ last' = Call("get_possible_solution", key, None, None, <<>>,
                           NoSuggestion, str(r.can_accuse),
                           << r.accuse["suspect"], r.accuse["weapon"], r.accuse["room"] >>)

GetAccusationRecommendation(key) ==
    /\ key \in DOMAIN _player_notebooks
    /\ LET r == get_accusation_recommendation(_player_notebooks[key])
       IN  /\ retry' = retry
           /\ _player_notebooks' = [_player_notebooks EXCEPT ![key] = r.nb]
           /\ last' = Call("get_accusation_recommendation", key, None, None, <<>>,
                           NoSuggestion, str(r.can_accuse),
                           << r.suspect, r.weapon, r.room >>)

ValidateAccusation(key, suspect, weapon, room) ==
    /\ key \in DOMAIN _player_notebooks
    /\ LET r == validate_accusation(_player_notebooks[key], suspect, weapon, room)
       IN  /\ retry' = retry
           /\ _player_notebooks' = [_player_notebooks EXCEPT ![key] = r.nb]
           /\ last' = Call("validate_accusation", key, None, None,
                           << suspect, weapon, room >>, NoSuggestion, str(r.valid),
                           [i \in 1..Len(r.warnings) |-> r.warnings[i][2]])

ValidateSuggestion(key, suspect, weapon, room) ==
    /\ key \in DOMAIN _player_notebooks
    /\ LET r == validate_suggestion(_player_notebooks[key], suspect, weapon, room)
       IN  /\ retry' = retry
           /\ _player_notebooks' = [_player_notebooks EXCEPT ![key] = r.nb]
           /\ last' = Call("validate_suggestion", key, None, None,
                           << suspect, weapon, room >>, NoSuggestion, str(r.valid),
                           r.wasted_cards)

GetStrategicSuggestion(key, current_room) ==
    /\ key \in DOMAIN _player_notebooks
    /\ LET r == get_strategic_suggestion(_player_notebooks[key], current_room)
       IN  /\ retry' = retry
           /\ _player_notebooks' = [_player_notebooks EXCEPT ![key] = r.nb]
           /\ last' = Call("get_strategic_suggestion", key, None, None,
                           << current_room >>, NoSuggestion, None, r.suggest)

\* A notebook on which a further call is explored in DeepSpec.
DeepOpen(key) ==
    /\ key \in DOMAIN _player_notebooks
    /\ Len(_player_notebooks[key].turn_log) < MaxDeepLog

DeepNext ==
    \/ \E p \in NotebookOwners : GetNotebook(p, DeepRoster)
    \/ \E p \in NotebookOwners : ResetNotebook(p)
    \/ \E k \in NotebookOwners, a \in DeepMarkInputs :
           DeepOpen(k) /\ MarkCard(k, a[1], a[2])
    \/ \E k \in NotebookOwners, a \in DeepNotHasInputs :
           DeepOpen(k) /\ MarkNotHas(k, a[1], a[2])
    \/ \E k \in NotebookOwners, cs \in DeepHandInputs :
           DeepOpen(k) /\ RecordMyCards(k, cs)
    \/ \E k \in NotebookOwners, sg \in DeepSuggestionInputs :
           /\ DeepOpen(k)
           /\ Len(_player_notebooks[k].suggestion_log) < MaxDeepSuggestions
           /\ RecordSuggestion(k, sg)
    \/ \E k \in NotebookOwners : GetUnknownCards(k)
    \/ \E k \in NotebookOwners : GetPossibleSolution(k)
    \/ \E k \in NotebookOwners : GetAccusationRecommendation(k)
    \/ \E k \in NotebookOwners, q \in QueryInputs : ValidateAccusation(k, q[1], q[2], q[3])
    \/ \E k \in NotebookOwners, q \in QueryInputs : ValidateSuggestion(k, q[1], q[2], q[3])
    \/ \E k \in NotebookOwners : GetStrategicSuggestion(k, "Kitchen")

DeepSpec == Init /\ [][DeepNext]_vars

(***************************************************************************)
(* A third exploration: two owners with notebooks of two rosters, the      *)
(* registry operations and the broadcast                                   *)
(***************************************************************************)
RegistryOwners == { "Scarlet", "Mustard" }

\* all_players arguments: Mustard is a player of the first roster only.
RegistryRosters == { << "Scarlet", "Mustard" >>, << "Scarlet", "Green" >> }

\* (card_name, card_holder) arguments of update_all_notebooks_card_shown.
BroadcastInputs ==
    { << "Knife", "Mustard" >>, << "Rope", "Scarlet" >>, << "Bogus", "Mustard" >> }

\* (card_name, player_name) arguments of mark_card on one notebook.
RegistryMarkInputs == { << "Miss Scarlet", "Scarlet" >> }

RegistryNext ==
    \/ \E p \in RegistryOwners, r \in RegistryRosters : GetNotebook(p, r)
    \/ \E p \in RegistryOwners : ResetNotebook(p)
    \/ ResetAllNotebooks
    \/ \E a \in BroadcastInputs :
           total_log(_player_notebooks) < MaxRegistryLog
               /\ UpdateAllNotebooksCardShown(a[1], a[2])
    \/ \E k \in RegistryOwners, a \in RegistryMarkInputs :
           total_log(_player_notebooks) < MaxRegistryLog
               /\ MarkCard(k, a[1], a[2])

RegistrySpec == Init /\ [][RegistryNext]_vars

(***************************************************************************)
(* A fourth exploration: _check_deductions sweep by sweep, from every grid *)
(* over the first MaxGridCards entries                                     *)
(***************************************************************************)
GridRosters == { << >>, << "Scarlet" >>, << "Scarlet", "Mustard" >> }

GridCards == { entry_order[i] : i \in 1..MaxGridCards }

\* The notebooks of roster r whose cells of GridCards hold any status; the
\* other entries are as the constructor leaves them.
Grids(r) ==
    { [DetectiveNotebook("Scarlet", r) EXCEPT
          !.player_status = [c \in Cards |-> IF c \in GridCards THEN ps[c] ELSE @[c]],
          !.envelope_status = [c \in Cards |-> IF c \in GridCards THEN es[c] ELSE @[c]]] :
        ps \in [GridCards -> [Range(r) -> CardStatus]],
        es \in [GridCards -> CardStatus] }

\* The sweeps _check_deductions makes at most, by the bound of the
\* specification: cards x owners + 1.
SweepLimit(nb) == Cardinality(Cards) * (Len(nb.all_players) + 1) + 1

GridInit ==
    \E r \in GridRosters : \E nb \in Grids(r) :
        /\ retry = NoRetry
        /\ _player_notebooks = [k \in { "Scarlet" } |-> nb]
        /\ last = Call("grid", "Scarlet", None, None, r, NoSuggestion, None, <<>>)

\* One iteration of `while changed`: the loop is entered with changed = True
\* and runs again while the sweep before set it.  last.results counts the
\* sweeps made, last.ret is the value of changed after the sweep.
CheckDeductionsSweep ==
    /\ last.op = "grid" \/ (last.op = "_check_deductions" /\ last.ret = "True")
    /\ Len(last.results) <= SweepLimit(_player_notebooks["Scarlet"])
    /\ LET r == sweep(_player_notebooks["Scarlet"])
       IN  /\ retry' = retry
           /\ _player_notebooks' = [_player_notebooks EXCEPT !["Scarlet"] = r.nb]
           /\ last' = Call("_check_deductions", "Scarlet", None, None, last.cards,
                           NoSuggestion, str(r.changed), Append(last.results, "sweep"))

SweepNext == CheckDeductionsSweep

\* The loop is sequential code without suspension points: a sweep that is
\* due is made.
SweepSpec == GridInit /\ [][SweepNext]_vars /\ WF_vars(CheckDeductionsSweep)

(***************************************************************************)
(* A fifth exploration: retry_with_backoff attempt by attempt              *)
(***************************************************************************)
\* base_delay arguments: a unit delay and the default.
BaseDelays == { 1, 5 }

\* What func() may end with: two exceptions, None, a response with an empty
\* raw, a response with text, and a value without a raw attribute.
FuncOutcomes ==
    { Raises("RuntimeError"), Raises("TimeoutError"),
      Returns(TRUE, FALSE, ""), Returns(FALSE, TRUE, ""),
      Returns(FALSE, TRUE, "text"), Returns(FALSE, FALSE, "") }

RetryInit ==
    /\ _player_notebooks = << >>
    /\ last = Call("init", None, None, None, <<>>, NoSuggestion, None, <<>>)
    /\ \E m \in 0..MaxRetries, d \in BaseDelays :
           retry = Frame("loop", m, d, 0, 0, <<>>, None, NoOutcome, NoOutcome, None)

\* One iteration of `for attempt in range(max_retries + 1)`: func() is
\* called; a value that is not empty is returned; otherwise the exception
\* raised, or the ValueError for an empty value, becomes last_exception and,
\* when attempts remain, the call sleeps for the delay.
RetryAttempt(out) ==
    /\ retry.pc = "loop"
    /\ retry.attempt < retry.max_retries + 1
    /\ UNCHANGED << _player_notebooks, last >>
    /\ IF out.raised = None /\ ~is_empty_response(out)
       THEN retry' = [retry EXCEPT !.pc = "returned", !.calls = @ + 1,
                                   !.outcome = out, !.result = out]
       ELSE retry' = [retry EXCEPT
                !.calls = @ + 1,
                !.outcome = out,
                !.last_exception = IF out.raised # None THEN out.raised ELSE VALUE_ERROR,
                !.sleeps = IF retry.attempt < retry.max_retries
                           THEN Append(@, backoff_delay(retry.base_delay, retry.attempt))
                           ELSE @,
                !.attempt = @ + 1]

\* After the loop: raise last_exception.
RetryRaise ==
    /\ retry.pc = "loop"
    /\ retry.attempt = retry.max_retries + 1
    /\ UNCHANGED << _player_notebooks, last >>
    /\ retry' = [retry EXCEPT !.pc = "raised", !.raised = retry.last_exception]

RetryNext ==
    \/ \E out \in FuncOutcomes : RetryAttempt(out)
    \/ RetryRaise

RetrySpec == RetryInit /\ [][RetryNext]_vars

(***************************************************************************)
(* Properties                                                              *)
(***************************************************************************)
\* The registered notebooks.
Notebooks == { _player_notebooks[k] : k \in DOMAIN _player_notebooks }

\* The player owners of a notebook.
Players(nb) == Range(nb.all_players)

\* The player owners with belief HAS for card c.
Holders(nb, c) == { p \in Players(nb) : nb.player_status[c][p] = HAS }

\* Every player owner has belief NOT_HAS for card c.
AllNotHas(nb, c) == \A p \in Players(nb) : nb.player_status[c][p] = NOT_HAS

\* The belief grid of a notebook.
Grid(nb) == << nb.player_status, nb.envelope_status >>

\* The event log holds a line of this kind for this card.
Logged(nb, kind, c) ==
    \E i \in 1..Len(nb.turn_log) : nb.turn_log[i].kind = kind /\ nb.turn_log[i].card = c

\* The last call was op on a registered notebook and returned ret.
Returned(op, ret) ==
    /\ last.op = op
    /\ last.ret = ret
    /\ last.key \in DOMAIN _player_notebooks

\* C1: for every card of every notebook at most one owner, counting the
\* players and the envelope, has belief HAS.
C1_AtMostOneHas ==
    \A nb \in Notebooks, c \in Cards :
        Cardinality(Holders(nb, c)) + (IF nb.envelope_status[c] = HAS THEN 1 ELSE 0) <= 1

\* C1 witness: a second mark_card for the same card named a different player,
\* who is now the holder.
C1_Witness ==
    \E nb \in Notebooks :
        /\ Len(nb.turn_log) >= 2
        /\ nb.turn_log[1].kind = "MARKED HAS" /\ nb.turn_log[2].kind = "MARKED HAS"
        /\ nb.turn_log[1].card = nb.turn_log[2].card
        /\ nb.turn_log[1].who # nb.turn_log[2].who
        /\ Holders(nb, nb.turn_log[2].card) = { nb.turn_log[2].who }

\* C2: when a player has belief HAS for a card, every other player and the
\* envelope have belief NOT_HAS for it.
C2_HasExcludesOthers ==
    \A nb \in Notebooks, c \in Cards :
        \A p \in Holders(nb, c) :
            /\ \A q \in Players(nb) \ {p} : nb.player_status[c][q] = NOT_HAS
            /\ nb.envelope_status[c] = NOT_HAS

\* C2 witness: mark_card returned on a notebook with several players, one of
\* whom now holds the card.
C2_Witness ==
    /\ Returned("mark_card", MARKED_HAS)
    /\ LET nb == _player_notebooks[last.key]
       IN  /\ Cardinality(Players(nb)) >= 2
           /\ Holders(nb, last.card) = { last.player }

\* C3: when the envelope has belief HAS for a card, every player has belief
\* NOT_HAS for it.
C3_EnvelopeExcludesPlayers ==
    \A nb \in Notebooks, c \in Cards :
        nb.envelope_status[c] = HAS => AllNotHas(nb, c)

\* C3 witness: the envelope was marked on a notebook with the default roster,
\* whose players the call never named.
C3_Witness ==
    /\ Returned("mark_card", MARKED_HAS)
    /\ LET nb == _player_notebooks[last.key]
       IN  /\ nb.all_players = DefaultPlayers
           /\ last.player = "ENVELOPE"
           /\ nb.envelope_status[last.card] = HAS
           /\ nb.player_status[last.card]["Green"] = NOT_HAS

\* C4 as claimed: whenever mark_not_has returns with every player NOT_HAS for
\* a card, the envelope is HAS for that card.
C4_Original ==
    Returned("mark_not_has", MARKED_NOT_HAS) =>
        LET nb == _player_notebooks[last.key]
        IN  AllNotHas(nb, last.card) => nb.envelope_status[last.card] = HAS

\* C4 as amended: whenever mark_not_has returns with every player NOT_HAS for
\* a card, the envelope is not UNKNOWN for that card: it is HAS, unless an
\* earlier mark_card under a name other than "ENVELOPE" had set it NOT_HAS.
C4_EliminationClosure ==
    Returned("mark_not_has", MARKED_NOT_HAS) =>
        LET nb == _player_notebooks[last.key]
        IN  \A c \in Cards :
                AllNotHas(nb, c) =>
                    \/ nb.envelope_status[c] = HAS
                    \/ /\ nb.envelope_status[c] = NOT_HAS
                       /\ \E i \in 1..Len(nb.turn_log) :
                              /\ nb.turn_log[i].kind = "MARKED HAS"
                              /\ nb.turn_log[i].card = c
                              /\ nb.turn_log[i].who # "ENVELOPE"

\* C4 witness: mark_not_has was called for both players of a roster and the
\* envelope was deduced.
C4_Witness ==
    /\ Returned("mark_not_has", MARKED_NOT_HAS)
    /\ LET nb == _player_notebooks[last.key]
       IN  /\ Cardinality(Players(nb)) = 2
           /\ AllNotHas(nb, last.card)
           /\ nb.envelope_status[last.card] = HAS
           /\ Len(nb.turn_log) = 3
           /\ nb.turn_log[1].kind = "MARKED NOT" /\ nb.turn_log[2].kind = "MARKED NOT"
           /\ nb.turn_log[3].kind = "DEDUCED"

\* C5 as claimed: after mark_card(C, O) returns, O is HAS for C, every other
\* player is NOT_HAS for C and, when O is a player, the envelope is NOT_HAS.
C5_MarkHasPostcondition ==
    Returned("mark_card", MARKED_HAS) =>
        LET nb == _player_notebooks[last.key]
            c  == last.card
            o  == last.player
        IN  /\ IF o \in Players(nb)
               THEN nb.player_status[c][o] = HAS /\ nb.envelope_status[c] = NOT_HAS
               ELSE nb.envelope_status[c] = HAS
            /\ \A q \in Players(nb) \ {o} : nb.player_status[c][q] = NOT_HAS

\* C6: a successful mark_not_has(C, P) leaves P NOT_HAS for C, leaves every
\* other player's belief for C as it was, and leaves the envelope's belief for
\* C as it was unless that was UNKNOWN and every player is now NOT_HAS, when
\* it becomes HAS.
C6_MarkNotHasFrame ==
    [][ ( /\ last'.op = "mark_not_has"
          /\ last'.ret = MARKED_NOT_HAS ) =>
            LET old == _player_notebooks[last'.key]
                new == _player_notebooks'[last'.key]
                c   == last'.card
                p   == last'.player
            IN  /\ new.player_status[c][p] = NOT_HAS
                /\ \A q \in Players(old) \ {p} :
                       new.player_status[c][q] = old.player_status[c][q]
                /\ new.envelope_status[c] =
                       IF old.envelope_status[c] = UNKNOWN /\ AllNotHas(new, c)
                       THEN HAS ELSE old.envelope_status[c] ]_vars

\* C6 witness: mark_not_has returned while another player and the envelope
\* are still UNKNOWN for the card.
C6_Witness ==
    /\ Returned("mark_not_has", MARKED_NOT_HAS)
    /\ LET nb == _player_notebooks[last.key]
       IN  /\ nb.player_status[last.card][last.player] = NOT_HAS
           /\ \E q \in Players(nb) : nb.player_status[last.card][q] = UNKNOWN
           /\ nb.envelope_status[last.card] = UNKNOWN

\* C7: from every reachable notebook and for every card and owner, mark_card
\* applied twice leaves the grid that mark_card applied once leaves.
C7_MarkHasIdempotent ==
    \A nb \in Notebooks, a \in MarkInputs :
        LET once  == mark_card(nb, a[1], a[2]).nb
            twice == mark_card(once, a[1], a[2]).nb
        IN  Grid(twice) = Grid(once)

\* C7 witness: the same successful mark_card was made twice in a row on a
\* notebook.
C7_Witness ==
    /\ Returned("mark_card", MARKED_HAS)
    /\ LET nb == _player_notebooks[last.key]
       IN  /\ Len(nb.turn_log) = 2
           /\ nb.turn_log[1] = nb.turn_log[2]
           /\ nb.turn_log[2] = Line("MARKED HAS", last.player, last.card, 0)
           /\ last.player \in Players(nb)

\* C8: mark_card and mark_not_has return the unknown-card error for a card
\* outside the catalog and the unknown-player error for an owner that is
\* neither a player nor the envelope token, and a call that returns an error
\* leaves every notebook (grid, event log, suggestion log) as it was.
C8_ErrorsChangeNothing ==
    [][ last'.op \in { "mark_card", "mark_not_has" } =>
            /\ last'.card \notin Cards => last'.ret = ERR_CARD
            /\ ( /\ last'.card \in Cards
                 /\ last'.player \notin Players(_player_notebooks[last'.key])
                 /\ upper(last'.player) # "ENVELOPE" ) => last'.ret = ERR_PLAYER
            /\ last'.ret \in Errors => _player_notebooks' = _player_notebooks ]_vars

\* C8 witness: mark_not_has returned the unknown-player error on a notebook
\* that has an event log and a marked card.
C8_Witness ==
    /\ Returned("mark_not_has", ERR_PLAYER)
    /\ last.player = "Nobody"
    /\ LET nb == _player_notebooks[last.key]
       IN  Len(nb.turn_log) >= 1 /\ \E c \in Cards : Holders(nb, c) # {}

\* C9 as claimed: for a catalog card, mark_card and mark_not_has return the
\* unknown-player error exactly when the owner is neither a player of the
\* notebook nor the envelope token.
C9_Original ==
    ( /\ last.op \in { "mark_card", "mark_not_has" }
      /\ last.key \in DOMAIN _player_notebooks
      /\ last.card \in Cards ) =>
        ( last.ret = ERR_PLAYER <=>
            /\ last.player \notin Players(_player_notebooks[last.key])
            /\ upper(last.player) # "ENVELOPE" )

\* C9 as amended: for a catalog card, mark_card returns the unknown-player
\* error exactly when the owner is neither a player of the notebook nor the
\* envelope token in any letter case, and mark_not_has exactly when the owner
\* is not a player of the notebook (it rejects the envelope token); for a card
\* outside the catalog both return the unknown-card error.
C9_UnknownOwner ==
    ( /\ last.op \in { "mark_card", "mark_not_has" }
      /\ last.key \in DOMAIN _player_notebooks ) =>
        LET is_player == last.player \in Players(_player_notebooks[last.key])
        IN  /\ last.card \notin Cards => last.ret = ERR_CARD
            /\ last.card \in Cards /\ last.op = "mark_card" =>
                   ( last.ret = ERR_PLAYER <=>
                       ~is_player /\ upper(last.player) # "ENVELOPE" )
            /\ last.card \in Cards /\ last.op = "mark_not_has" =>
                   ( last.ret = ERR_PLAYER <=> ~is_player )

\* C9 witness: mark_not_has rejected the envelope token as an unknown player.
C9_Witness ==
    /\ Returned("mark_not_has", ERR_PLAYER)
    /\ last.player = "ENVELOPE"
    /\ last.card \in Cards

\* C10 as claimed: no ingestion call ends with an exception.
C10_NoFault ==
    last.op \in { "mark_card", "mark_not_has", "record_my_cards", "record_suggestion" }
        => last.ret # KEY_ERROR

\* The owners with belief HAS for card c, the envelope counted as the owner
\* "ENVELOPE".
HasOwners(nb, c) ==
    Holders(nb, c) \cup (IF nb.envelope_status[c] = HAS THEN { "ENVELOPE" } ELSE {})

\* The owner a mark_card argument names: a player, or the envelope for the
\* token in any letter case.
OwnerOf(nb, player_name) ==
    IF player_name \in Players(nb) THEN player_name ELSE upper(player_name)

\* C11 as claimed: mark_card(C, O2) made while a different owner O1 is HAS
\* for C returns success, and afterwards O2 is HAS for C and O1 is NOT_HAS
\* for C.
C11_ConflictOverwrites ==
    [][ ( /\ last'.op = "mark_card"
          /\ last'.card \in Cards
          /\ OwnerOf(_player_notebooks[last'.key], last'.player)
                 \in Players(_player_notebooks[last'.key]) \cup { "ENVELOPE" }
          /\ HasOwners(_player_notebooks[last'.key], last'.card)
                 \ { OwnerOf(_player_notebooks[last'.key], last'.player) } # {} ) =>
            LET old == _player_notebooks[last'.key]
                new == _player_notebooks'[last'.key]
                o2  == OwnerOf(old, last'.player)
            IN  /\ last'.ret = MARKED_HAS
                /\ HasOwners(new, last'.card) = { o2 } ]_vars

\* The number of event log lines of one kind.
CountKind(log, kind) == Cardinality({ i \in 1..Len(log) : log[i].kind = kind })

\* C12: record_my_cards(cards) on a notebook whose owner is in its roster,
\* with every card in the catalog, leaves each listed card HAS for the owner
\* and NOT_HAS for every other player and for the envelope, and appends
\* exactly one GAME START line to the event log whatever the number of cards.
C12_RecordOwnHand ==
    [][ ( /\ last'.op = "record_my_cards"
          /\ _player_notebooks[last'.key].owner_name
                 \in Players(_player_notebooks[last'.key])
          /\ Range(last'.cards) \subseteq Cards ) =>
            LET old == _player_notebooks[last'.key]
                new == _player_notebooks'[last'.key]
                me  == old.owner_name
            IN  /\ \A c \in Range(last'.cards) :
                       /\ new.player_status[c][me] = HAS
                       /\ \A q \in Players(new) \ {me} : new.player_status[c][q] = NOT_HAS
                       /\ new.envelope_status[c] = NOT_HAS
                /\ CountKind(new.turn_log, "GAME START")
                       = CountKind(old.turn_log, "GAME START") + 1
                /\ new.turn_log[Len(new.turn_log)].kind = "GAME START" ]_vars

\* C12 witness: record_my_cards returned for a hand of two catalog cards on a
\* notebook whose owner is in the roster, with another player in it.
C12_Witness ==
    /\ Returned("record_my_cards", RECORDED_CARDS)
    /\ Len(last.cards) = 2
    /\ Range(last.cards) \subseteq Cards
    /\ LET nb == _player_notebooks[last.key]
       IN  /\ nb.owner_name \in Players(nb)
           /\ Cardinality(Players(nb)) >= 2
           /\ \A c \in Range(last.cards) : Holders(nb, c) = { nb.owner_name }

\* The cells of a notebook, the envelope's under the owner "ENVELOPE".
Cell(nb, c, o) == IF o = "ENVELOPE" THEN nb.envelope_status[c] ELSE nb.player_status[c][o]

\* The (card, owner) cells that are HAS in new and were not in old.
BecameHas(old, new) ==
    { co \in Cards \X (Players(old) \cup { "ENVELOPE" }) :
        Cell(new, co[1], co[2]) = HAS /\ Cell(old, co[1], co[2]) # HAS }

\* card_shown and disprover are both given.
BothPresent(sg) == sg.card_shown # None /\ sg.disprover # None

\* Exactly one of card_shown and disprover is given.
OnePresent(sg) == (sg.card_shown # None) # (sg.disprover # None)

\* C13 as claimed: record_suggestion applies mark_card(card_shown, disprover)
\* exactly when both are present, and with only one of the two present the
\* call (on a notebook with players) sets no belief to HAS.
C13_Original ==
    [][ last'.op = "record_suggestion" =>
            LET old == _player_notebooks[last'.key]
                new == _player_notebooks'[last'.key]
                sg  == last'.sugg
            IN  /\ ( /\ BothPresent(sg)
                     /\ sg.card_shown \in Cards
                     /\ sg.disprover \in Players(old) ) =>
                       new.player_status[sg.card_shown][sg.disprover] = HAS
                /\ ~BothPresent(sg) =>
                       CountKind(new.turn_log, "MARKED HAS")
                           = CountKind(old.turn_log, "MARKED HAS")
                /\ OnePresent(sg) /\ Players(old) # {} =>
                       BecameHas(old, new) = {} ]_vars

\* C13 as amended: record_suggestion applies mark_card(card_shown, disprover)
\* exactly when both are present (for a catalog card and a player of the
\* notebook the disprover is then HAS for the card and one MARKED HAS line is
\* logged); with only one of the two present no mark_card is applied and no
\* player's belief becomes HAS: the only belief that becomes HAS is the
\* envelope's, by deduction, for a card that every player is NOT_HAS for.
C13_ShownCardMarked ==
    [][ last'.op = "record_suggestion" =>
            LET old == _player_notebooks[last'.key]
                new == _player_notebooks'[last'.key]
                sg  == last'.sugg
                applies == /\ sg.card_shown \in Cards
                           /\ sg.disprover \in Players(old)
            IN  /\ BothPresent(sg) /\ applies =>
                       /\ new.player_status[sg.card_shown][sg.disprover] = HAS
                       /\ CountKind(new.turn_log, "MARKED HAS")
                              = CountKind(old.turn_log, "MARKED HAS") + 1
                /\ ~BothPresent(sg) =>
                       /\ CountKind(new.turn_log, "MARKED HAS")
                              = CountKind(old.turn_log, "MARKED HAS")
                       /\ \A co \in BecameHas(old, new) :
                              /\ co[2] = "ENVELOPE"
                              /\ old.envelope_status[co[1]] = UNKNOWN
                              /\ AllNotHas(new, co[1]) ]_vars

\* C13 witness: a suggestion with a disprover and no card shown was recorded
\* on a notebook with two players, and the envelope is deduced to hold the
\* suspect that the last player passed on.
C13_Witness ==
    /\ Returned("record_suggestion", RECORDED_SUGGESTION)
    /\ last.sugg.disprover # None /\ last.sugg.card_shown = None
    /\ LET nb == _player_notebooks[last.key]
       IN  /\ Cardinality(Players(nb)) = 2
           /\ nb.envelope_status[last.sugg.suspect] = HAS
           /\ nb.envelope_status[last.sugg.weapon] = UNKNOWN
           /\ Logged(nb, "DEDUCED", last.sugg.suspect)

\* The notebook after the shown-card step of a record_suggestion call.
AfterShown(nb, sg) ==
    IF BothPresent(sg) THEN mark_card(nb, sg.card_shown, sg.disprover).nb ELSE nb

\* The three proposed cards that are in the catalog.
Proposed(sg) == { sg.suspect, sg.weapon, sg.room } \cap Cards

\* C14: a record_suggestion call that returns sets to NOT_HAS exactly the
\* (proposed card, passing player) cells that are UNKNOWN after the
\* shown-card mark_card of the call and leaves a passing player's cell that
\* is HAS or NOT_HAS as it is; the other player cells are as the shown-card
\* mark_card left them, and an envelope cell differs from that only by the
\* deduction UNKNOWN -> HAS for a card every player is NOT_HAS for. A call
\* that stops at a card outside the catalog changes no cell in another way.
C14_PassedOwnersFrame ==
    [][ last'.op = "record_suggestion" =>
            LET old == _player_notebooks[last'.key]
                new == _player_notebooks'[last'.key]
                sg  == last'.sugg
                mid == AfterShown(old, sg)
                passed == Range(sg.players_passed) \cap Players(old)
            IN  /\ \A c \in Cards, p \in Players(old) :
                       IF c \in Proposed(sg) /\ p \in passed
                       THEN IF mid.player_status[c][p] = UNKNOWN
                            THEN IF last'.ret = RECORDED_SUGGESTION
                                 THEN new.player_status[c][p] = NOT_HAS
                                 ELSE new.player_status[c][p] \in { UNKNOWN, NOT_HAS }
                            ELSE new.player_status[c][p] = mid.player_status[c][p]
                       ELSE new.player_status[c][p] = mid.player_status[c][p]
                /\ \A c \in Cards :
                       \/ new.envelope_status[c] = mid.envelope_status[c]
                       \/ /\ mid.envelope_status[c] = UNKNOWN
                          /\ new.envelope_status[c] = HAS
                          /\ AllNotHas(new, c) ]_vars

\* C14 witness: a returned record_suggestion with a passing player of the
\* roster whose cell for the proposed suspect was HAS and still is, and whose
\* cell for the proposed weapon was set to NOT_HAS.
C14_Witness ==
    /\ Returned("record_suggestion", RECORDED_SUGGESTION)
    /\ LET nb == _player_notebooks[last.key]
           sg == last.sugg
       IN  \E p \in Range(sg.players_passed) \cap Players(nb) :
               /\ sg.suspect \in Cards
               /\ nb.player_status[sg.suspect][p] = HAS
               /\ nb.player_status[sg.weapon][p] = NOT_HAS
               /\ \E i \in 1..Len(nb.turn_log) :
                      nb.turn_log[i] = Line("MARKED NOT", p, sg.weapon, 0)

\* C15: the suggestion log of a notebook starts empty, every
\* record_suggestion call on it appends exactly one record holding the
\* arguments of the call (also a call that stops at a card outside the
\* catalog), and no other operation changes the log of a notebook that stays
\* registered: the length of the log is the number of record_suggestion
\* calls made on the instance.
C15_SuggestionLogAppendOnly ==
    [][ \A k \in DOMAIN _player_notebooks' :
            LET new == _player_notebooks'[k].suggestion_log
            IN  IF k \notin DOMAIN _player_notebooks
                THEN new = <<>>
                ELSE IF last'.op = "record_suggestion" /\ last'.key = k
                THEN new = Append(_player_notebooks[k].suggestion_log, last'.sugg)
                ELSE new = _player_notebooks[k].suggestion_log ]_vars

\* C15 witness: a second suggestion was recorded on a notebook, after a first
\* one with other arguments.
C15_Witness ==
    /\ Returned("record_suggestion", RECORDED_SUGGESTION)
    /\ LET log == _player_notebooks[last.key].suggestion_log
       IN  /\ Len(log) = 2
           /\ log[2] = last.sugg
           /\ log[1] # log[2]

\* The lines a step appended to an event log.
Appended(old, new) == SubSeq(new, Len(old) + 1, Len(new))

\* C16: for every notebook that stays registered, each step keeps the event
\* log it had as a prefix of the new one, appends a line naming every card
\* whose row of the grid it changed, and appends, for every card whose
\* envelope belief it changed to HAS, a DEDUCED line or the MARKED HAS line of
\* a mark_card with the envelope token for that card.
C16_EventLogComplete ==
    [][ \A k \in DOMAIN _player_notebooks \cap DOMAIN _player_notebooks' :
            LET old == _player_notebooks[k]
                new == _player_notebooks'[k]
                added == Appended(old.turn_log, new.turn_log)
            IN  /\ Len(new.turn_log) >= Len(old.turn_log)
                /\ SubSeq(new.turn_log, 1, Len(old.turn_log)) = old.turn_log
                /\ \A c \in Cards :
                       ( \/ new.player_status[c] # old.player_status[c]
                         \/ new.envelope_status[c] # old.envelope_status[c] ) =>
                           \E i \in 1..Len(added) : added[i].card = c
                /\ \A c \in Cards :
                       ( new.envelope_status[c] = HAS /\ old.envelope_status[c] # HAS ) =>
                           \E i \in 1..Len(added) :
                               /\ added[i].card = c
                               /\ \/ added[i].kind = "DEDUCED"
                                  \/ added[i].kind = "MARKED HAS"
                                     /\ added[i].who = "ENVELOPE" ]_vars

\* C16 witness: the last call appended a deduction line for its card after
\* the lines of earlier calls, and the envelope holds the card.
C16_Witness ==
    /\ last.op \in { "mark_not_has", "record_suggestion" }
    /\ last.key \in DOMAIN _player_notebooks
    /\ LET nb == _player_notebooks[last.key]
           n  == Len(nb.turn_log)
       IN  /\ n >= 2
           /\ Players(nb) # {}
           /\ \E i \in 2..n :
                  /\ nb.turn_log[i].kind = "DEDUCED"
                  /\ nb.envelope_status[nb.turn_log[i].card] = HAS
                  /\ nb.turn_log[1].kind \in { "MARKED NOT", "MARKED HAS" }

\* The query operations.
QueryOps ==
    { "get_unknown_cards", "get_possible_solution", "get_accusation_recommendation",
      "validate_accusation", "validate_suggestion", "get_strategic_suggestion" }

\* C17: no query changes a notebook: the grid, the event log and the
\* suggestion log of every registered notebook are after the query what they
\* were before it.
C17_QueriesArePure ==
    [][ last'.op \in QueryOps => _player_notebooks' = _player_notebooks ]_vars

\* C17 witness: validate_accusation answered with a warning on a notebook
\* with marked cards, event log lines and a recorded suggestion.
C17_Witness ==
    /\ Returned("validate_accusation", "False")
    /\ last.results # <<>>
    /\ LET nb == _player_notebooks[last.key]
       IN  /\ nb.turn_log # <<>>
           /\ nb.suggestion_log # <<>>
           /\ \E c \in Cards : Holders(nb, c) # {}

\* The cards of a category.
Category(t) == { c \in Cards : card_type(c) = t }

\* The cards of a category that the envelope is HAS for.
InEnvelope(nb, t) == { c \in Category(t) : nb.envelope_status[c] = HAS }

\* A category has a confirmed solution card: the envelope is HAS for exactly
\* one of its cards.
Confirmed(nb, t) == Cardinality(InEnvelope(nb, t)) = 1

\* The possible-solution set of a category: no player is HAS and the
\* envelope is not NOT_HAS.
Candidates(nb, t) ==
    { c \in Category(t) : Holders(nb, c) = {} /\ nb.envelope_status[c] # NOT_HAS }

\* A category is settled: a confirmed solution card or exactly one remaining
\* candidate.
Settled(nb, t) == Confirmed(nb, t) \/ Cardinality(Candidates(nb, t)) = 1

\* The card of a settled category: the confirmed card if there is one, else
\* the single candidate.
SettledCard(nb, t) ==
    IF Confirmed(nb, t) THEN CHOOSE c \in InEnvelope(nb, t) : TRUE
    ELSE CHOOSE c \in Candidates(nb, t) : TRUE

\* C18 as claimed: get_accusation_recommendation reports can_accuse exactly
\* when each of the three categories has a confirmed solution card or exactly
\* one remaining candidate, and then returns per category the confirmed card
\* if there is one and else the single candidate.
C18_AccusationGate ==
    \A nb \in Notebooks :
        LET r == get_accusation_recommendation(nb)
        IN  /\ r.can_accuse <=> \A t \in Range(CardTypes) : Settled(nb, t)
            /\ r.can_accuse =>
                   /\ r.suspect = SettledCard(nb, "suspect")
                   /\ r.weapon = SettledCard(nb, "weapon")
                   /\ r.room = SettledCard(nb, "room")

\* C19 as claimed: in a state where the envelope is HAS for two or more
\* cards of one category, get_possible_solution and
\* get_accusation_recommendation do not report the category as confirmed,
\* and the category counts towards can_accuse only with exactly one
\* remaining candidate.
C19_ConfirmedNeedsExactlyOne ==
    \A nb \in Notebooks, t \in Range(CardTypes) :
        Cardinality(InEnvelope(nb, t)) >= 2 =>
            /\ get_possible_solution(nb).confirmed[t] = None
            /\ get_possible_solution(nb).can_accuse =>
                   Cardinality(Candidates(nb, t)) = 1
            /\ get_accusation_recommendation(nb).can_accuse =>
                   Cardinality(Candidates(nb, t)) = 1

\* The cards of a category no player is HAS for and the envelope is UNKNOWN
\* for.
OpenCandidates(nb, t) ==
    { c \in Category(t) : Holders(nb, c) = {} /\ nb.envelope_status[c] = UNKNOWN }

ValidationInputs ==
    { << "Miss Scarlet", "Rope", "Bogus" >>, << "Colonel Mustard", "Knife", "Kitchen" >>,
      << "Mr. Green", "Rope", "Library" >> }

\* The cards of a triple that are in the catalog and that some player is HAS
\* for or the envelope is NOT_HAS for.
Offending(nb, q) ==
    { c \in Range(q) \cap Cards :
        Holders(nb, c) # {} \/ nb.envelope_status[c] = NOT_HAS }

\* C21: validate_accusation returns valid = false, with warnings that name
\* every offending card and no other card, exactly when some proposed card is
\* held by a player or excluded from the envelope; otherwise it returns
\* valid = true and no warning.
C21_ValidateAccusation ==
    \A nb \in Notebooks, q \in ValidationInputs :
        LET r == validate_accusation(nb, q[1], q[2], q[3])
            named == { r.warnings[i][2] : i \in 1..Len(r.warnings) }
        IN  /\ r.valid <=> Offending(nb, q) = {}
            /\ named = Offending(nb, q)
            /\ r.valid <=> r.warnings = <<>>

\* C21 witness: validate_accusation warned twice about a suspect, which a
\* player holds and the envelope is excluded for, and about no other card.
C21_Witness ==
    /\ Returned("validate_accusation", "False")
    /\ last.results = << "Miss Scarlet", "Miss Scarlet" >>
    /\ Holders(_player_notebooks[last.key], "Miss Scarlet") # {}

\* The cards of a triple that are in the catalog and that some owner, a
\* player or the envelope, is HAS for or the envelope is NOT_HAS for.
Known(nb, q) ==
    { c \in Range(q) \cap Cards :
        HasOwners(nb, c) # {} \/ nb.envelope_status[c] = NOT_HAS }

\* C22 as claimed: validate_suggestion puts a proposed card in wasted_cards
\* exactly when some owner, a player or the envelope, is HAS for it or the
\* envelope is NOT_HAS for it, and returns valid = false exactly when
\* wasted_cards is not empty.
C22_WastedCards ==
    \A nb \in Notebooks, q \in ValidationInputs :
        LET r == validate_suggestion(nb, q[1], q[2], q[3])
        IN  /\ Range(r.wasted_cards) = Known(nb, q)
            /\ r.valid <=> r.wasted_cards = <<>>

\* C23: the better_suspects and better_weapons lists of validate_suggestion
\* hold no card that the same call puts in wasted_cards, and hold only
\* suspects, respectively weapons, that no owner, player or envelope, is HAS
\* for and the envelope is not NOT_HAS for.
C23_BetterAlternatives ==
    \A nb \in Notebooks, q \in ValidationInputs :
        LET r == validate_suggestion(nb, q[1], q[2], q[3])
            better == Range(r.better_suspects) \cup Range(r.better_weapons)
        IN  /\ better \cap Range(r.wasted_cards) = {}
            /\ Range(r.better_suspects) \subseteq Category("suspect")
            /\ Range(r.better_weapons) \subseteq Category("weapon")
            /\ \A c \in better :
                   HasOwners(nb, c) = {} /\ nb.envelope_status[c] # NOT_HAS

\* C23 witness: validate_suggestion flagged a suspect that no player holds
\* and the envelope is excluded for, and offers the five other suspects and
\* some weapons.
C23_Witness ==
    /\ Returned("validate_suggestion", "False")
    /\ last.results = << "Miss Scarlet" >>
    /\ LET nb == _player_notebooks[last.key]
           r  == validate_suggestion(nb, last.cards[1], last.cards[2], last.cards[3])
       IN  /\ Holders(nb, "Miss Scarlet") = {}
           /\ nb.envelope_status["Miss Scarlet"] = NOT_HAS
           /\ Len(r.better_suspects) = 5
           /\ r.better_weapons # <<>>

\* The first card of a sequence that no owner, player or envelope, is HAS
\* for, or None.
RECURSIVE FirstUnresolved(_, _, _)
FirstUnresolved(nb, cards, i) ==
    IF i > Len(cards) THEN None
    ELSE IF HasOwners(nb, cards[i]) = {} THEN cards[i]
    ELSE FirstUnresolved(nb, cards, i + 1)

\* Rooms the caller can be in.
RoomInputs == { "Kitchen", "Library" }

\* C24: get_strategic_suggestion(current_room) proposes the first suspect
\* and the first weapon, in catalog order, that no owner is HAS for,
\* together with current_room, and proposes no triple when every suspect or
\* every weapon has an owner that is HAS.
C24_StrategicSuggestion ==
    \A nb \in Notebooks, room \in RoomInputs :
        LET r == get_strategic_suggestion(nb, room)
            s == FirstUnresolved(nb, suspects, 1)
            w == FirstUnresolved(nb, weapons, 1)
        IN  IF s # None /\ w # None
            THEN r.suggest = << s, w, room >>
            ELSE r.suggest = <<>>

\* C24 witness: on a notebook with players the first suspect is held, and
\* the proposal starts with the second suspect.
C24_Witness ==
    \E nb \in Notebooks :
        /\ Holders(nb, "Miss Scarlet") # {}
        /\ get_strategic_suggestion(nb, "Library").suggest
               = << "Colonel Mustard", "Candlestick", "Library" >>

\* C24 witness of the other case: every suspect has an owner, and nothing is
\* proposed.
C24_NothingToPropose ==
    \E nb \in Notebooks :
        /\ \A c \in Category("suspect") : HasOwners(nb, c) # {}
        /\ get_strategic_suggestion(nb, "Library").suggest = <<>>

\* A notebook as the constructor leaves it: 21 entries, 6 suspects, 6
\* weapons and 9 rooms, every belief of every player of the roster and of the
\* envelope UNKNOWN, and both logs empty.
Fresh(nb, roster) ==
    /\ nb.all_players = roster
    /\ DOMAIN nb.player_status = DOMAIN nb.envelope_status
    /\ Cardinality(DOMAIN nb.player_status) = 21
    /\ Cardinality({ c \in DOMAIN nb.player_status : card_type(c) = "suspect" }) = 6
    /\ Cardinality({ c \in DOMAIN nb.player_status : card_type(c) = "weapon" }) = 6
    /\ Cardinality({ c \in DOMAIN nb.player_status : card_type(c) = "room" }) = 9
    /\ \A c \in DOMAIN nb.player_status :
           /\ DOMAIN nb.player_status[c] = Range(roster)
           /\ \A p \in Range(roster) : nb.player_status[c][p] = UNKNOWN
           /\ nb.envelope_status[c] = UNKNOWN
    /\ nb.turn_log = <<>>
    /\ nb.suggestion_log = <<>>

\* The roster a get_notebook call passes to the constructor.
RosterOf(call) == IF call.cards = << None >> THEN DefaultPlayers ELSE call.cards

\* C25: the notebook that get_notebook creates for an owner without one is
\* fresh, for every roster: 21 card entries (6 suspects, 6 weapons, 9
\* rooms), every belief UNKNOWN, empty event and suggestion logs.
C25_FreshNotebook ==
    [][ \A k \in DOMAIN _player_notebooks' \ DOMAIN _player_notebooks :
            /\ last'.op = "get_notebook"
            /\ last'.key = k
            /\ _player_notebooks'[k].owner_name = k
            /\ Fresh(_player_notebooks'[k], RosterOf(last')) ]_vars

\* C25 witness: get_notebook has just created a notebook with the default
\* roster of six players, and nothing is recorded in it.
C25_Witness ==
    /\ last.op = "get_notebook"
    /\ last.key \in DOMAIN _player_notebooks
    /\ LET nb == _player_notebooks[last.key]
       IN  /\ Cardinality(Players(nb)) = 6
           /\ nb.turn_log = <<>>
           /\ \A c \in Cards : nb.envelope_status[c] = UNKNOWN

\* C26: the registry maps an owner to one notebook.  get_notebook for an
\* owner without a notebook registers one with that owner and the roster
\* passed, and changes no other notebook; get_notebook for a registered
\* owner, whatever roster is passed, leaves the registry as it is (the
\* notebook returned is the registered one, with its roster, beliefs and
\* logs); and no call changes the owner or the roster of a notebook that
\* stays registered, unless it is a get_notebook after a reset.
C26_OneNotebookPerOwner ==
    [][ /\ last'.op = "get_notebook" =>
              IF last'.key \in DOMAIN _player_notebooks
              THEN _player_notebooks' = _player_notebooks
              ELSE /\ DOMAIN _player_notebooks' =
                          DOMAIN _player_notebooks \cup { last'.key }
                   /\ _player_notebooks'[last'.key].owner_name = last'.key
                   /\ _player_notebooks'[last'.key].all_players = RosterOf(last')
                   /\ \A k \in DOMAIN _player_notebooks :
                          _player_notebooks'[k] = _player_notebooks[k]
        /\ \A k \in DOMAIN _player_notebooks \cap DOMAIN _player_notebooks' :
              /\ _player_notebooks'[k].owner_name = _player_notebooks[k].owner_name
              /\ _player_notebooks'[k].all_players = _player_notebooks[k].all_players
      ]_vars

\* C26 witness: get_notebook has just been called for Scarlet with a roster
\* other than the one Scarlet's notebook was created with, and the notebook
\* keeps its roster, a belief recorded earlier and its event log, next to
\* Mustard's notebook.
C26_Witness ==
    /\ last.op = "get_notebook"
    /\ last.key = "Scarlet"
    /\ DOMAIN _player_notebooks = { "Scarlet", "Mustard" }
    /\ _player_notebooks["Scarlet"].all_players # last.cards
    /\ _player_notebooks["Scarlet"].turn_log # <<>>
    /\ \E c \in Cards : Holders(_player_notebooks["Scarlet"], c) # {}

\* C27: reset_notebook(owner) removes that owner's notebook from the
\* registry and no other: every other registered owner stays registered with
\* the same notebook (grid, event log and suggestion log), and for an owner
\* without a notebook the registry is left as it is.
C27_ResetIsolation ==
    [][ last'.op = "reset_notebook" =>
            /\ DOMAIN _player_notebooks' = DOMAIN _player_notebooks \ { last'.key }
            /\ \A k \in DOMAIN _player_notebooks' :
                   _player_notebooks'[k] = _player_notebooks[k]
            /\ last'.key \notin DOMAIN _player_notebooks =>
                   _player_notebooks' = _player_notebooks
      ]_vars

\* C27 witness: Scarlet's notebook has just been reset and Mustard's is still
\* registered, with a card marked in it and a line in its event log.
C27_Witness ==
    /\ last.op = "reset_notebook"
    /\ last.key = "Scarlet"
    /\ DOMAIN _player_notebooks = { "Mustard" }
    /\ _player_notebooks["Mustard"].turn_log # <<>>
    /\ \E c \in Cards : Holders(_player_notebooks["Mustard"], c) # {}

\* C28: reset_all_notebooks leaves the registry empty and reset_notebook
\* leaves the owner without a notebook; an owner without a notebook gets one
\* only by get_notebook for that owner, and that notebook is fresh: owner
\* and roster as passed, every belief UNKNOWN and both logs empty.  So the
\* first access after a reset finds nothing of what was recorded before it.
C28_FreshAfterReset ==
    [][ /\ last'.op = "reset_all_notebooks" => _player_notebooks' = << >>
        /\ last'.op = "reset_notebook" =>
               last'.key \notin DOMAIN _player_notebooks'
        /\ \A k \in DOMAIN _player_notebooks' \ DOMAIN _player_notebooks :
               /\ last'.op = "get_notebook" /\ last'.key = k
               /\ Fresh(_player_notebooks'[k], RosterOf(last'))
        /\ (/\ last.op \in { "reset_all_notebooks", "reset_notebook" }
            /\ last'.op = "get_notebook"
            /\ last.op = "reset_notebook" => last'.key = last.key)
               => /\ last'.key \in DOMAIN _player_notebooks'
                  /\ Fresh(_player_notebooks'[last'.key], RosterOf(last'))
      ]_vars

\* C28 witness: get_notebook has just registered a fresh notebook for
\* Scarlet with the roster Scarlet, Green, while Mustard's notebook holds the
\* mark of an earlier broadcast of the Rope: nothing of that broadcast is in
\* Scarlet's notebook.
C28_Witness ==
    /\ last.op = "get_notebook"
    /\ last.key = "Scarlet"
    /\ DOMAIN _player_notebooks = { "Scarlet", "Mustard" }
    /\ Fresh(_player_notebooks["Scarlet"], << "Scarlet", "Green" >>)
    /\ _player_notebooks["Mustard"].player_status["Rope"]["Scarlet"] = HAS

\* C29: update_all_notebooks_card_shown(card, holder) for a card of the
\* catalog keeps the registered owners and, in every registered notebook
\* whose roster contains holder, leaves holder HAS for the card, every
\* other player of that roster NOT_HAS and the envelope NOT_HAS; and in
\* every registered notebook the cards with a holder recorded before, other
\* than this card, keep their row and their envelope cell.
C29_BroadcastFanOut ==
    [][ (last'.op = "update_all_notebooks_card_shown" /\ last'.card \in Cards) =>
            /\ DOMAIN _player_notebooks' = DOMAIN _player_notebooks
            /\ \A k \in DOMAIN _player_notebooks :
                   LET old == _player_notebooks[k]
                       new == _player_notebooks'[k]
                   IN  /\ last'.player \in Players(old) =>
                              /\ new.player_status[last'.card][last'.player] = HAS
                              /\ \A p \in Players(old) \ { last'.player } :
                                     new.player_status[last'.card][p] = NOT_HAS
                              /\ new.envelope_status[last'.card] = NOT_HAS
                       /\ \A d \in Cards \ { last'.card } :
                              Holders(old, d) # {} =>
                                  /\ new.player_status[d] = old.player_status[d]
                                  /\ new.envelope_status[d] = old.envelope_status[d]
      ]_vars

\* C29 witness: the Rope held by Scarlet has just been broadcast to two
\* notebooks; both show Scarlet HAS, the other player NOT_HAS and the
\* envelope NOT_HAS for the Rope, and Scarlet's notebook still shows the Knife
\* held by Mustard from the broadcast before.
C29_Witness ==
    /\ last.op = "update_all_notebooks_card_shown"
    /\ last.card = "Rope" /\ last.player = "Scarlet"
    /\ DOMAIN _player_notebooks = { "Scarlet", "Mustard" }
    /\ \A k \in DOMAIN _player_notebooks :
           LET nb == _player_notebooks[k]
           IN  /\ Holders(nb, "Rope") = { "Scarlet" }
               /\ \A p \in Players(nb) \ { "Scarlet" } :
                      nb.player_status["Rope"][p] = NOT_HAS
               /\ nb.envelope_status["Rope"] = NOT_HAS
    /\ Holders(_player_notebooks["Scarlet"], "Knife") = { "Mustard" }
    /\ _player_notebooks["Scarlet"].envelope_status["Knife"] = NOT_HAS

\* C30: update_all_notebooks_card_shown returns None for every card and
\* holder, and keeps the registered owners (none, when the registry is
\* empty).  A notebook without the card in its catalog, or without the
\* holder in its roster, is left as it is, and every other registered
\* notebook gets the mark and its line in the event log.
C30_BroadcastTolerant ==
    [][ last'.op = "update_all_notebooks_card_shown" =>
            /\ last'.ret = None
            /\ DOMAIN _player_notebooks' = DOMAIN _player_notebooks
            /\ \A k \in DOMAIN _player_notebooks :
                   LET old == _player_notebooks[k]
                       new == _player_notebooks'[k]
                   IN  IF last'.card \in Cards /\ last'.player \in Players(old)
                       THEN /\ new.player_status[last'.card][last'.player] = HAS
                            /\ Len(new.turn_log) > Len(old.turn_log)
                       ELSE new = old
      ]_vars

\* C30 witness: the Knife held by Mustard has just been broadcast; Scarlet's
\* notebook, whose roster is Scarlet and Green, is as it was created, and
\* Mustard's notebook shows the Knife held by Mustard.
C30_Witness ==
    /\ last.op = "update_all_notebooks_card_shown"
    /\ last.card = "Knife" /\ last.player = "Mustard"
    /\ DOMAIN _player_notebooks = { "Scarlet", "Mustard" }
    /\ Fresh(_player_notebooks["Scarlet"], << "Scarlet", "Green" >>)
    /\ Holders(_player_notebooks["Mustard"], "Knife") = { "Mustard" }

\* C30, the other cases: a broadcast with no notebook registered, and a
\* broadcast of a card that no catalog holds.
C30_EmptyRegistry ==
    /\ last.op = "update_all_notebooks_card_shown"
    /\ _player_notebooks = << >>

C30_UnknownCard ==
    /\ last.op = "update_all_notebooks_card_shown"
    /\ last.card \notin Cards
    /\ DOMAIN _player_notebooks = { "Scarlet", "Mustard" }
    /\ \A k \in DOMAIN _player_notebooks : _player_notebooks[k].turn_log = <<>>

\* C31: from every grid, of every roster including the empty one,
\* _check_deductions leaves its loop: a sweep eventually reports no change,
\* and the sweeps made never exceed cards x owners + 1.
C31_DeductionsTerminate ==
    /\ [](Len(last.results) <= SweepLimit(_player_notebooks["Scarlet"]))
    /\ <>(last.op = "_check_deductions" /\ last.ret = "False")

\* C31 witness: the loop has ended after a second sweep on a notebook of an
\* empty roster, whose first sweep put every card without an envelope
\* status in the envelope.
C31_Witness ==
    /\ last.op = "_check_deductions" /\ last.ret = "False"
    /\ Len(last.results) = 2
    /\ _player_notebooks["Scarlet"].all_players = << >>
    /\ Logged(_player_notebooks["Scarlet"], "DEDUCED", "Library")

\* The operations that change a notebook.
MutatorOps == { "mark_card", "mark_not_has", "record_my_cards", "record_suggestion" }

\* The grid of nb is a fixed point of deduction 1.
EliminationFixedPoint(nb) ==
    \A c \in Cards : ~(nb.envelope_status[c] = UNKNOWN /\ AllNotHas(nb, c))

\* C32 as stated: whenever mark_card, mark_not_has, record_my_cards or
\* record_suggestion returns, no card of the notebook has the envelope
\* UNKNOWN while every player is NOT_HAS.
C32_Original ==
    (last.op \in MutatorOps /\ last.key \in DOMAIN _player_notebooks
         /\ last.ret # KEY_ERROR)
        => EliminationFixedPoint(_player_notebooks[last.key])

\* The last call ran _check_deductions before it returned: an accepted
\* mark_card or mark_not_has, or a record_suggestion that did not raise.
PassRan ==
    \/ Returned("mark_card", MARKED_HAS)
    \/ Returned("mark_not_has", MARKED_NOT_HAS)
    \/ Returned("record_suggestion", RECORDED_SUGGESTION)

\* C32, amended: whenever a mutating operation returns (or raises) on a
\* notebook with at least one player, and whenever it returns after running
\* the deduction pass on a notebook of any roster, no card has the envelope
\* UNKNOWN while every player is NOT_HAS.
C32_EliminationFixedPoint ==
    (/\ last.op \in MutatorOps
     /\ last.key \in DOMAIN _player_notebooks
     /\ Players(_player_notebooks[last.key]) # {} \/ PassRan)
        => EliminationFixedPoint(_player_notebooks[last.key])

\* C32 witness: a mutating operation has returned on a notebook with players
\* in which the pass has put a card in the envelope by elimination.
C32_Witness ==
    /\ last.op \in MutatorOps
    /\ last.key \in DOMAIN _player_notebooks
    /\ LET nb == _player_notebooks[last.key]
       IN  /\ Players(nb) # {}
           /\ \E c \in Cards :
                  /\ Logged(nb, "DEDUCED", c)
                  /\ nb.envelope_status[c] = HAS
                  /\ AllNotHas(nb, c)

\* C32, the empty roster: record_suggestion has returned on a notebook
\* without players, and the pass has put every card in the envelope.
C32_EmptyRosterPass ==
    /\ Returned("record_suggestion", RECORDED_SUGGESTION)
    /\ _player_notebooks[last.key].all_players = << >>
    /\ \A c \in Cards : _player_notebooks[last.key].envelope_status[c] = HAS

\* From grid pre to grid post every cell that differs was UNKNOWN and is
\* HAS or NOT_HAS.
OnlyUnknownResolved(pre, post) ==
    \A c \in Cards :
        /\ pre.envelope_status[c] # post.envelope_status[c] =>
               /\ pre.envelope_status[c] = UNKNOWN
               /\ post.envelope_status[c] \in { HAS, NOT_HAS }
        /\ \A p \in DOMAIN pre.player_status[c] :
               pre.player_status[c][p] # post.player_status[c][p] =>
                   /\ pre.player_status[c][p] = UNKNOWN
                   /\ post.player_status[c][p] \in { HAS, NOT_HAS }

\* Every sweep of the pass started on nb resolves UNKNOWN cells only.
RECURSIVE PassResolvesUnknown(_)
PassResolvesUnknown(nb) ==
    Then(sweep(nb), LAMBDA r : /\ OnlyUnknownResolved(nb, r.nb)
                               /\ r.changed => PassResolvesUnknown(r.nb))

\* The notebook on which mark_card starts its pass, and the one on which
\* mark_not_has does (the log line apart).
BeforePassOfMarkCard(nb, c, p) ==
    set_envelope_not_has(set_others_not_has(set_holder(nb, c, p), c, p), c, p)

BeforePassOfMarkNotHas(nb, c, p) == [nb EXCEPT !.player_status[c][p] = NOT_HAS]

\* C33: the deduction pass that an accepted mark_card or mark_not_has runs
\* on a registered notebook, and a pass started on any notebook as a call
\* created or changed it (the pass that ends record_suggestion), change a
\* cell only from UNKNOWN to HAS or NOT_HAS, sweep by sweep.
C33_PassResolvesUnknownOnly ==
    [][ /\ \A k \in DOMAIN _player_notebooks' :
               (k \in DOMAIN _player_notebooks =>
                    _player_notebooks'[k] # _player_notebooks[k])
                   => PassResolvesUnknown(_player_notebooks'[k])
        /\ (last'.op = "mark_card" /\ last'.ret = MARKED_HAS) =>
               PassResolvesUnknown(
                   BeforePassOfMarkCard(_player_notebooks[last'.key],
                                        last'.card, last'.player))
        /\ (last'.op = "mark_not_has" /\ last'.ret = MARKED_NOT_HAS) =>
               PassResolvesUnknown(
                   BeforePassOfMarkNotHas(_player_notebooks[last'.key],
                                          last'.card, last'.player))
      ]_vars

\* C33 witness: the pass of a mark_not_has has changed a cell: the envelope
\* of the card marked went from UNKNOWN to HAS, next to a player whom an
\* earlier call had marked NOT_HAS.
C33_Witness ==
    /\ Returned("mark_not_has", MARKED_NOT_HAS)
    /\ LET nb == _player_notebooks[last.key]
       IN  /\ Cardinality(Players(nb)) >= 2
           /\ nb.envelope_status[last.card] = HAS
           /\ nb.turn_log[Len(nb.turn_log)] = Line("DEDUCED", "ENVELOPE", last.card, 0)

\* C34: no call takes a cell of a notebook that stays registered from HAS
\* or NOT_HAS back to UNKNOWN, for the players and for the envelope.
C34_NeverBackToUnknown ==
    [][ \A k \in DOMAIN _player_notebooks \cap DOMAIN _player_notebooks' :
            LET old == _player_notebooks[k]
                new == _player_notebooks'[k]
            IN  \A c \in Cards :
                    /\ old.envelope_status[c] # UNKNOWN =>
                           new.envelope_status[c] # UNKNOWN
                    /\ \A p \in Players(old) :
                           old.player_status[c][p] # UNKNOWN =>
                               new.player_status[c][p] # UNKNOWN
      ]_vars

\* C34 witness: mark_not_has has just been accepted for a player whom the
\* first call on the notebook had marked HAS for the same card: the cell was
\* rewritten, to NOT_HAS, and the envelope cell stays NOT_HAS.
C34_Witness ==
    /\ Returned("mark_not_has", MARKED_NOT_HAS)
    /\ LET nb == _player_notebooks[last.key]
       IN  /\ nb.turn_log[1] = Line("MARKED HAS", last.player, last.card, 0)
           /\ nb.player_status[last.card][last.player] = NOT_HAS
           /\ nb.envelope_status[last.card] = NOT_HAS

\* The rows and envelope cells of every card but c are the same in old and new.
OtherCardsUnchanged(old, new, c) ==
    \A d \in Cards \ { c } :
        /\ new.player_status[d] = old.player_status[d]
        /\ new.envelope_status[d] = old.envelope_status[d]

\* C35 as stated: mark_card(C, O) and mark_not_has(C, O), with the pass they
\* run, leave the beliefs of every card other than C as they were.
C35_Original ==
    [][ last'.op \in { "mark_card", "mark_not_has" } =>
            OtherCardsUnchanged(_player_notebooks[last'.key],
                                _player_notebooks'[last'.key], last'.card)
      ]_vars

\* C35, amended: on a notebook with at least one player, and on a notebook
\* without players whose grid a pass has already closed, mark_card(C, O) and
\* mark_not_has(C, O), accepted or not, leave the row and the envelope cell
\* of every card other than C as they were.
C35_OtherCardsFrame ==
    [][ last'.op \in { "mark_card", "mark_not_has" } =>
            LET old == _player_notebooks[last'.key]
            IN  (Players(old) # {} \/ EliminationFixedPoint(old)) =>
                    OtherCardsUnchanged(old, _player_notebooks'[last'.key],
                                        last'.card)
      ]_vars

\* C35 witness: mark_card has been accepted for Miss Scarlet on a notebook
\* that shows the Knife held by Mustard from a call before, and the row of
\* the Knife is as that call left it.
C35_Witness ==
    /\ Returned("mark_card", MARKED_HAS)
    /\ last.card = "Miss Scarlet"
    /\ LET nb == _player_notebooks[last.key]
       IN  /\ Holders(nb, "Knife") = { "Mustard" }
           /\ nb.player_status["Knife"]["Scarlet"] = NOT_HAS
           /\ nb.envelope_status["Knife"] = NOT_HAS
           /\ is_solved(nb, "Miss Scarlet")

\* C36 as claimed: mark_card on a catalog card with the envelope token in
\* any letter case (and no player of that name) is accepted, and leaves the
\* envelope HAS for the card and every player NOT_HAS.
C36_EnvelopeTokenAnyCase ==
    (/\ last.op = "mark_card"
     /\ last.key \in DOMAIN _player_notebooks
     /\ last.card \in Cards
     /\ upper(last.player) = "ENVELOPE"
     /\ last.player \notin Players(_player_notebooks[last.key]))
        => /\ last.ret = MARKED_HAS
           /\ _player_notebooks[last.key].envelope_status[last.card] = HAS
           /\ AllNotHas(_player_notebooks[last.key], last.card)

\* C37: for every registered notebook for which
\* get_accusation_recommendation reports can_accuse, validate_accusation of
\* the suspect, weapon and room it recommends returns valid with no warning.
C37_RecommendationIsValid ==
    \A nb \in Notebooks :
        LET rec == get_accusation_recommendation(nb)
        IN  rec.can_accuse =>
                LET v == validate_accusation(nb, rec.suspect, rec.weapon, rec.room)
                IN  v.valid /\ v.warnings = <<>>

\* C37 witness: get_accusation_recommendation has reported can_accuse on a
\* notebook with players, with a suspect the envelope is HAS for and the one
\* weapon and the one room that no player holds and the envelope is UNKNOWN
\* for.
C37_Witness ==
    /\ Returned("get_accusation_recommendation", "True")
    /\ LET nb == _player_notebooks[last.key]
       IN  /\ Players(nb) # {}
           /\ nb.envelope_status[last.results[1]] = HAS
           /\ last.results[2] = "Rope" /\ nb.envelope_status["Rope"] = UNKNOWN
           /\ last.results[3] = "Library" /\ nb.envelope_status["Library"] = UNKNOWN
           /\ validate_accusation(nb, last.results[1], "Rope", "Library").valid

\* C38 as claimed: in every registered notebook, the suspect and the weapon
\* that get_strategic_suggestion(current_room) recommends are not among the
\* wasted_cards of validate_suggestion called with them and current_room on
\* the same notebook.
C38_ProposalNotWasted ==
    \A nb \in Notebooks, room \in RoomInputs :
        LET r == get_strategic_suggestion(nb, room)
        IN  r.suggest # <<>> =>
                LET v == validate_suggestion(nb, r.suggest[1], r.suggest[2], room)
                IN  /\ r.suggest[1] \notin Range(v.wasted_cards)
                    /\ r.suggest[2] \notin Range(v.wasted_cards)

\* The exception a failed attempt leaves: the one func raised, or the
\* ValueError for a value that is None or has an empty raw.
ExceptionOf(out) == IF out.raised # None THEN out.raised ELSE VALUE_ERROR

\* func() failed: it raised, or returned None or a response with an empty raw.
Failed(out) == out.raised # None \/ out.is_none \/ (out.has_raw /\ out.raw = "")

C39_ReturnedAfterRetries ==
    /\ retry.pc = "returned"
    /\ retry.calls = 3
    /\ retry.last_exception = VALUE_ERROR
    /\ retry.result = Returns(FALSE, TRUE, "text")
    /\ Len(retry.sleeps) = 2

====
